---- MODULE Spec2Model ----
(***************************************************************************)
(* Model of the embedding evaluation engine (src/evaluator.py):            *)
(* the ten test evaluators, the cosine-similarity primitive they use and   *)
(* the score aggregator evaluate_submission; the CSV leaderboard           *)
(* (src/leaderboard_manager.py); and the submission endpoint (src/app.py)  *)
(* with the PostgreSQL leaderboard and submissions table (src/src/core).   *)
(*                                                                         *)
(* Floating-point numbers are modelled as exact extended rationals <<n,d>> *)
(* in lowest terms with d >= 0.  d > 0 is the finite value n/d; d = 0 is a *)
(* non-finite float: <<1,0>> = +inf, <<-1,0>> = -inf, <<0,0>> = NaN.        *)
(* Rounding error of binary floating point is not modelled.                *)
(***************************************************************************)
EXTENDS Integers, Sequences, FiniteSets, TLC

VARIABLES
    thresholds,     \* EvaluationEngine.thresholds   (name -> float)
    test_weights,   \* EvaluationEngine.test_weights (name -> float)
    pc,             \* position of the call in progress
    test_id,        \* evaluator call: which of the ten evaluators
    embeddings,     \* evaluator call: the embeddings array (sequence of rows)
    score,          \* evaluator call: outcome [raised, val]
    results,        \* evaluate_submission call: the `results` argument
    ret,            \* evaluate_submission call: outcome [raised, value, invoked]
    calls,          \* concurrent requests: request -> frame of the call it is in
    leaderboard,    \* the stored leaderboard (rows of the CSV file / of the table)
    submissions,    \* the user_submissions table
    history         \* the update_leaderboard calls completed so far, in order

vars == <<thresholds, test_weights, pc, test_id, embeddings, score, results, ret, calls,
          leaderboard, submissions, history>>

(***************************************************************************)
(* Bounds of the model.                                                    *)
(***************************************************************************)
MaxLen == 4          \* longest embeddings array drawn from the full pool
MaxTests == 2        \* most test entries in one modelled processed_data
MaxEvaluations == 2  \* most evaluations one request thread runs one after another

(***************************************************************************)
(* Extended rational arithmetic (Python float / numpy.float64 semantics).  *)
(***************************************************************************)
Abs(x) == IF x < 0 THEN -x ELSE x

Sign(x) == IF x > 0 THEN 1 ELSE IF x < 0 THEN -1 ELSE 0

RECURSIVE GCD(_, _)
GCD(a, b) == IF b = 0 THEN a ELSE GCD(b, a % b)

\* the float n/d; a zero denominator gives the non-finite value numpy returns
Q(n, d) ==
    IF d = 0 THEN <<Sign(n), 0>>
    ELSE LET g == GCD(Abs(n), Abs(d))
             s == Sign(d)
         IN  <<(s * n) \div g, (s * d) \div g>>

Zero == <<0, 1>>
One == <<1, 1>>
Half == <<1, 2>>
NaN == <<0, 0>>
PosInf == <<1, 0>>
NegInf == <<-1, 0>>

IsFinite(a) == a[2] > 0
IsNaN(a) == a = NaN

FAdd(a, b) ==
    IF IsFinite(a) /\ IsFinite(b) THEN Q(a[1] * b[2] + b[1] * a[2], a[2] * b[2])
    ELSE IF IsNaN(a) \/ IsNaN(b) THEN NaN
    ELSE IF IsFinite(a) THEN b
    ELSE IF IsFinite(b) THEN a
    ELSE IF a = b THEN a ELSE NaN

FNeg(a) == <<-a[1], a[2]>>

FSub(a, b) == FAdd(a, FNeg(b))

FMul(a, b) ==
    IF IsFinite(a) /\ IsFinite(b) THEN Q(a[1] * b[1], a[2] * b[2])
    ELSE IF IsNaN(a) \/ IsNaN(b) THEN NaN
    ELSE <<Sign(a[1]) * Sign(b[1]), 0>>

\* numpy.float64 division: x/0 is +-inf, 0/0 is NaN, no exception is raised
FDiv(a, b) ==
    IF IsFinite(a) /\ IsFinite(b) THEN Q(a[1] * b[2], a[2] * b[1])
    ELSE IF IsNaN(a) \/ IsNaN(b) THEN NaN
    ELSE IF IsFinite(a) THEN Zero
    ELSE IF IsFinite(b) THEN <<a[1] * (IF b[1] < 0 THEN -1 ELSE 1), 0>>
    ELSE NaN

\* comparisons: every comparison with NaN is false
FLt(a, b) ==
    IF IsNaN(a) \/ IsNaN(b) THEN FALSE
    ELSE IF IsFinite(a) /\ IsFinite(b) THEN a[1] * b[2] < b[1] * a[2]
    ELSE IF IsFinite(a) THEN b = PosInf
    ELSE IF IsFinite(b) THEN a = NegInf
    ELSE a = NegInf /\ b = PosInf

FGt(a, b) == FLt(b, a)

FLe(a, b) == ~IsNaN(a) /\ ~IsNaN(b) /\ ~FLt(b, a)

FGe(a, b) == FLe(b, a)

\* Python's builtin max(a, b) and min(a, b): the first argument wins ties
\* and wins whenever the comparison is false
PyMax(a, b) == IF FGt(b, a) THEN b ELSE a

PyMin(a, b) == IF FLt(b, a) THEN b ELSE a

FAbs(a) == <<Abs(a[1]), a[2]>>

RECURSIVE FSum(_)
FSum(s) == IF s = <<>> THEN Zero ELSE FAdd(Head(s), FSum(Tail(s)))

\* numpy.mean of a non-empty list of floats
Mean(s) == FDiv(FSum(s), Q(Len(s), 1))

\* round(x, 3): to the nearest multiple of 1/1000, ties to even;
\* non-finite values are returned unchanged
Round3(a) ==
    IF ~IsFinite(a) THEN a
    ELSE LET m == a[1] * 1000
             q == m \div a[2]
             r == m % a[2]
             up == 2 * r > a[2] \/ (2 * r = a[2] /\ q % 2 = 1)
         IN  Q(IF up THEN q + 1 ELSE q, 1000)

(***************************************************************************)
(* Embedding vectors and the similarity primitive.                         *)
(* A row of the embeddings array is a tuple of integers.  The rows used    *)
(* here all have Euclidean norm 0 or 20, so every cosine is the exact      *)
(* rational dot(u,v)/400.                                                  *)
(***************************************************************************)
VZ == <<0, 0, 0, 0, 0>>
VE1 == <<20, 0, 0, 0, 0>>
VN1 == <<-20, 0, 0, 0, 0>>
VE2 == <<0, 20, 0, 0, 0>>
V30 == <<6, 18, 6, 2, 0>>
V85 == <<17, 10, 3, 1, 1>>
V65 == <<13, 15, 2, 1, 1>>
V75 == <<15, 13, 2, 1, 1>>
V60 == <<12, 16, 0, 0, 0>>
V55 == <<11, 15, 7, 2, 1>>
V80 == <<16, 12, 0, 0, 0>>
\* V70a and V70c are at 0.70 from VE1 and at 0.60 from each other
V70a == <<14, 10, 8, 6, 2>>
V70c == <<14, 10, 0, -10, 2>>
\* V70d is at 0.70 from VE1 and at 0.30 from V70a
V70d == <<14, -10, 8, -6, -2>>

VecPool == {VZ, VE1, VN1, VE2, V30, V85}

RECURSIVE DotFrom(_, _, _)
DotFrom(u, v, i) == IF i > Len(u) THEN 0 ELSE u[i] * v[i] + DotFrom(u, v, i + 1)

Dot(u, v) == DotFrom(u, v, 1)

\* Euclidean norm (an integer for every row used here)
VecNorm(u) == LET d == Dot(u, u) IN CHOOSE n \in 0..20 : n * n = d

\* the cosine computed as dot/(|u| |v|) with no care for a zero norm: 0/0
cosine_similarity_m(u, v) ==
    LET nu == VecNorm(u)
        nv == VecNorm(v)
    IN  Q(Dot(u, v), nu * nv)

\* sklearn cosine_similarity(X[i:i+1], X[j:j+1])[0, 0]: rows are normalised,
\* a row of zero norm is left as it is, so its similarity to anything is 0
cosine_similarity(u, v) ==
    LET nu == VecNorm(u)
        nv == VecNorm(v)
    IN  IF nu = 0 \/ nv = 0 THEN Zero ELSE Q(Dot(u, v), nu * nv)

\* similarities[np.triu_indices_from(similarities, k=1)]: all pairs i < j
RECURSIVE TriuFrom(_, _, _)
TriuFrom(e, i, j) ==
    IF i >= Len(e) THEN <<>>
    ELSE IF j > Len(e) THEN TriuFrom(e, i + 1, i + 2)
    ELSE <<cosine_similarity(e[i], e[j])>> \o TriuFrom(e, i, j + 1)

triu_similarities(e) == TriuFrom(e, 1, 2)

(***************************************************************************)
(* Outcome of a call: a returned value or a raised exception.              *)
(***************************************************************************)
Ret(v) == [raised |-> FALSE, val |-> v]

Raise == [raised |-> TRUE, val |-> Zero]

Has(th, k) == k \in DOMAIN th

\* the fixed constants of the evaluators
C050 == Q(50, 100)
C055 == Q(55, 100)
C060 == Q(60, 100)
C065 == Q(65, 100)
C070 == Q(70, 100)
C075 == Q(75, 100)
C080 == Q(80, 100)
C085 == Q(85, 100)
C030 == Q(30, 100)
C04 == Q(4, 10)
C03 == Q(3, 10)
C02 == Q(2, 10)
C06 == Q(6, 10)
C08 == Q(8, 10)
C07 == Q(7, 10)

(***************************************************************************)
(* The ten evaluators.  th is self.thresholds, e the embeddings array.     *)
(***************************************************************************)
\* Test 1 with the interpolation divided by high instead of (high - low)
evaluate_price_extremes_m(th, e) ==
    IF Len(e) # 2 THEN Ret(Zero)
    ELSE LET similarity == cosine_similarity(e[1], e[2]) IN
         IF ~Has(th, "low_similarity") THEN Raise
         ELSE IF FLt(similarity, th["low_similarity"]) THEN Ret(One)
         ELSE IF ~Has(th, "high_similarity") THEN Raise
         ELSE IF FGt(similarity, th["high_similarity"]) THEN Ret(Zero)
         ELSE LET normalized ==
                      FDiv(FSub(th["high_similarity"], similarity), th["high_similarity"])
              IN  Ret(PyMax(Zero, PyMin(One, normalized)))

\* Test 1
evaluate_price_extremes(th, e) ==
    IF Len(e) # 2 THEN Ret(Zero)
    ELSE LET similarity == cosine_similarity(e[1], e[2]) IN
         IF ~Has(th, "low_similarity") THEN Raise
         ELSE IF FLt(similarity, th["low_similarity"]) THEN Ret(One)
         ELSE IF ~Has(th, "high_similarity") THEN Raise
         ELSE IF FGt(similarity, th["high_similarity"]) THEN Ret(Zero)
         ELSE LET normalized ==
                      FDiv(FSub(th["high_similarity"], similarity),
                           FSub(th["high_similarity"], th["low_similarity"]))
              IN  Ret(PyMax(Zero, PyMin(One, normalized)))

\* Test 2 with the ranking bonus granted on a tie
evaluate_single_option_diff_m(th, e) ==
    IF Len(e) # 3 THEN Ret(Zero)
    ELSE LET sim_a_to_similar == cosine_similarity(e[1], e[2])
             sim_a_to_different == cosine_similarity(e[1], e[3])
         IN
         IF ~Has(th, "single_option_diff_min") \/ ~Has(th, "low_similarity") THEN Raise
         ELSE IF ~FLt(sim_a_to_different, th["low_similarity"])
                 /\ ~Has(th, "high_similarity") THEN Raise
         ELSE LET similar_score ==
                      IF FGe(sim_a_to_similar, th["single_option_diff_min"]) THEN One
                      ELSE FDiv(sim_a_to_similar, th["single_option_diff_min"])
                  different_score ==
                      IF FLt(sim_a_to_different, th["low_similarity"]) THEN One
                      ELSE FDiv(FSub(th["high_similarity"], sim_a_to_different),
                                FSub(th["high_similarity"], th["low_similarity"]))
                  ranking_bonus ==
                      IF FGe(sim_a_to_similar, sim_a_to_different) THEN One ELSE Half
              IN  Ret(FAdd(FAdd(FMul(similar_score, C04), FMul(different_score, C04)),
                           FMul(ranking_bonus, C02)))

\* Test 2
evaluate_single_option_diff(th, e) ==
    IF Len(e) # 3 THEN Ret(Zero)
    ELSE LET sim_a_to_similar == cosine_similarity(e[1], e[2])
             sim_a_to_different == cosine_similarity(e[1], e[3])
         IN
         IF ~Has(th, "single_option_diff_min") \/ ~Has(th, "low_similarity") THEN Raise
         ELSE IF ~FLt(sim_a_to_different, th["low_similarity"])
                 /\ ~Has(th, "high_similarity") THEN Raise
         ELSE LET similar_score ==
                      IF FGe(sim_a_to_similar, th["single_option_diff_min"]) THEN One
                      ELSE FDiv(sim_a_to_similar, th["single_option_diff_min"])
                  different_score ==
                      IF FLt(sim_a_to_different, th["low_similarity"]) THEN One
                      ELSE FDiv(FSub(th["high_similarity"], sim_a_to_different),
                                FSub(th["high_similarity"], th["low_similarity"]))
                  ranking_bonus ==
                      IF FGt(sim_a_to_similar, sim_a_to_different) THEN One ELSE Half
              IN  Ret(FAdd(FAdd(FMul(similar_score, C04), FMul(different_score, C04)),
                           FMul(ranking_bonus, C02)))

\* the band rule with the score below the band scaled by the upper edge
BandScore_m(similarity, lo, hi) ==
    IF FLe(lo, similarity) /\ FLe(similarity, hi) THEN One
    ELSE IF FLt(similarity, lo) THEN FDiv(similarity, hi)
    ELSE PyMax(Zero, FSub(One, FDiv(FSub(similarity, hi), FSub(One, hi))))

\* the band rule written out in tests 3, 5 and 10
BandScore(similarity, lo, hi) ==
    IF FLe(lo, similarity) /\ FLe(similarity, hi) THEN One
    ELSE IF FLt(similarity, lo) THEN FDiv(similarity, lo)
    ELSE PyMax(Zero, FSub(One, FDiv(FSub(similarity, hi), FSub(One, hi))))

\* Test 3
evaluate_model_year_sensitivity(th, e) ==
    IF Len(e) # 2 THEN Ret(Zero)
    ELSE Ret(BandScore(cosine_similarity(e[1], e[2]), C050, C075))

\* Test 4 with the 0.70 floor tested before high_similarity
evaluate_color_sensitivity_m(th, e) ==
    IF Len(e) # 2 THEN Ret(Zero)
    ELSE LET similarity == cosine_similarity(e[1], e[2]) IN
         IF FLt(similarity, C070) THEN Ret(Zero)
         ELSE IF ~Has(th, "high_similarity") THEN Raise
         ELSE IF FGe(similarity, th["high_similarity"]) THEN Ret(One)
         ELSE Ret(FDiv(FSub(similarity, C070), FSub(th["high_similarity"], C070)))

\* Test 4
evaluate_color_sensitivity(th, e) ==
    IF Len(e) # 2 THEN Ret(Zero)
    ELSE LET similarity == cosine_similarity(e[1], e[2]) IN
         IF ~Has(th, "high_similarity") THEN Raise
         ELSE IF FGe(similarity, th["high_similarity"]) THEN Ret(One)
         ELSE IF FLt(similarity, C070) THEN Ret(Zero)
         ELSE Ret(FDiv(FSub(similarity, C070), FSub(th["high_similarity"], C070)))

\* Test 5
evaluate_trim_similarity(th, e) ==
    IF Len(e) < 2 THEN Ret(Zero)
    ELSE Ret(BandScore(Mean(triu_similarities(e)), C055, C080))

\* Test 6 interpolating up to high_similarity instead of 0.65
evaluate_vehicle_line_separation_m(th, e) ==
    IF Len(e) < 2 THEN Ret(Zero)
    ELSE LET avg_similarity == Mean(triu_similarities(e)) IN
         IF ~Has(th, "low_similarity") THEN Raise
         ELSE IF FLt(avg_similarity, th["low_similarity"]) THEN Ret(One)
         ELSE IF FGt(avg_similarity, C065) THEN Ret(Zero)
         ELSE IF ~Has(th, "high_similarity") THEN Raise
         ELSE Ret(FDiv(FSub(th["high_similarity"], avg_similarity),
                       FSub(th["high_similarity"], th["low_similarity"])))

\* Test 6
evaluate_vehicle_line_separation(th, e) ==
    IF Len(e) < 2 THEN Ret(Zero)
    ELSE LET avg_similarity == Mean(triu_similarities(e)) IN
         IF ~Has(th, "low_similarity") THEN Raise
         ELSE IF FLt(avg_similarity, th["low_similarity"]) THEN Ret(One)
         ELSE IF FGt(avg_similarity, C065) THEN Ret(Zero)
         ELSE Ret(FDiv(FSub(C065, avg_similarity), FSub(C065, th["low_similarity"])))

\* the scoring of test 7 with the clustering bonus granted on a tie
DerivativeClusteringScore_m(e) ==
    LET same_derivative_sims ==
            <<cosine_similarity(e[1], e[2]), cosine_similarity(e[1], e[3]),
              cosine_similarity(e[2], e[3])>>
        different_derivative_sims ==
            <<cosine_similarity(e[1], e[4]), cosine_similarity(e[2], e[4]),
              cosine_similarity(e[3], e[4])>>
        avg_same == Mean(same_derivative_sims)
        avg_different == Mean(different_derivative_sims)
        clustering_score == IF FGe(avg_same, avg_different) THEN One ELSE Half
        same_score == IF FGe(avg_same, C070) THEN One ELSE FDiv(avg_same, C070)
        different_score ==
            IF FLt(avg_different, C050) THEN One
            ELSE PyMax(Zero, FDiv(FSub(C080, avg_different), C03))
    IN  FAdd(FAdd(FMul(clustering_score, C04), FMul(same_score, C03)),
             FMul(different_score, C03))

\* the scoring of test 7 on the first four rows
DerivativeClusteringScore(e) ==
    LET same_derivative_sims ==
            <<cosine_similarity(e[1], e[2]), cosine_similarity(e[1], e[3]),
              cosine_similarity(e[2], e[3])>>
        different_derivative_sims ==
            <<cosine_similarity(e[1], e[4]), cosine_similarity(e[2], e[4]),
              cosine_similarity(e[3], e[4])>>
        avg_same == Mean(same_derivative_sims)
        avg_different == Mean(different_derivative_sims)
        clustering_score == IF FGt(avg_same, avg_different) THEN One ELSE Half
        same_score == IF FGe(avg_same, C070) THEN One ELSE FDiv(avg_same, C070)
        different_score ==
            IF FLt(avg_different, C050) THEN One
            ELSE PyMax(Zero, FDiv(FSub(C080, avg_different), C03))
    IN  FAdd(FAdd(FMul(clustering_score, C04), FMul(same_score, C03)),
             FMul(different_score, C03))

\* Test 7 with the count check written as "fewer than 4"
evaluate_derivative_clustering_m(th, e) ==
    IF Len(e) < 4 THEN Ret(Zero) ELSE Ret(DerivativeClusteringScore(e))

\* Test 7
evaluate_derivative_clustering(th, e) ==
    IF Len(e) # 4 THEN Ret(Zero) ELSE Ret(DerivativeClusteringScore(e))

\* Test 8 with the monotonic bonus granted when either comparison holds
evaluate_feature_correlation_m(th, e) ==
    IF Len(e) # 3 THEN Ret(Zero)
    ELSE LET sim_low_mid == cosine_similarity(e[1], e[2])
             sim_mid_high == cosine_similarity(e[2], e[3])
             sim_low_high == cosine_similarity(e[1], e[3])
             monotonic ==
                 IF FGt(sim_low_mid, sim_low_high) \/ FGt(sim_mid_high, sim_low_high)
                 THEN One ELSE Half
             avg_sim == Mean(<<sim_low_mid, sim_mid_high, sim_low_high>>)
             range_score ==
                 IF FLe(C030, avg_sim) /\ FLe(avg_sim, C065) THEN One
                 ELSE PyMax(Zero, FSub(One, FDiv(FAbs(FSub(avg_sim, Mean(<<C030, C065>>))),
                                                 Half)))
         IN  Ret(FAdd(FMul(monotonic, Half), FMul(range_score, Half)))

\* Test 8
evaluate_feature_correlation(th, e) ==
    IF Len(e) # 3 THEN Ret(Zero)
    ELSE LET sim_low_mid == cosine_similarity(e[1], e[2])
             sim_mid_high == cosine_similarity(e[2], e[3])
             sim_low_high == cosine_similarity(e[1], e[3])
             monotonic ==
                 IF FGt(sim_low_mid, sim_low_high) /\ FGt(sim_mid_high, sim_low_high)
                 THEN One ELSE Half
             avg_sim == Mean(<<sim_low_mid, sim_mid_high, sim_low_high>>)
             range_score ==
                 IF FLe(C030, avg_sim) /\ FLe(avg_sim, C065) THEN One
                 ELSE PyMax(Zero, FSub(One, FDiv(FAbs(FSub(avg_sim, Mean(<<C030, C065>>))),
                                                 Half)))
         IN  Ret(FAdd(FMul(monotonic, Half), FMul(range_score, Half)))

\* Test 9 taking the last row, not the third, as C
evaluate_transitivity_m(th, e) ==
    IF Len(e) < 3 THEN Ret(Zero)
    ELSE LET sim_ab == cosine_similarity(e[1], e[2])
             sim_bc == cosine_similarity(e[2], e[Len(e)])
             sim_ac == cosine_similarity(e[1], e[Len(e)])
             min_pairwise == PyMin(sim_ab, sim_bc)
         IN
         IF FGe(sim_ac, FMul(min_pairwise, C08)) THEN Ret(One)
         ELSE IF FGe(sim_ac, FMul(min_pairwise, C06)) THEN Ret(C07)
         ELSE Ret(PyMax(Zero, FDiv(sim_ac, FMul(min_pairwise, C06))))

\* Test 9
evaluate_transitivity(th, e) ==
    IF Len(e) < 3 THEN Ret(Zero)
    ELSE LET sim_ab == cosine_similarity(e[1], e[2])
             sim_bc == cosine_similarity(e[2], e[3])
             sim_ac == cosine_similarity(e[1], e[3])
             min_pairwise == PyMin(sim_ab, sim_bc)
         IN
         IF FGe(sim_ac, FMul(min_pairwise, C08)) THEN Ret(One)
         ELSE IF FGe(sim_ac, FMul(min_pairwise, C06)) THEN Ret(C07)
         ELSE Ret(PyMax(Zero, FDiv(sim_ac, FMul(min_pairwise, C06))))

\* Test 10 with the upper band edge read from high_similarity
evaluate_cross_year_m(th, e) ==
    IF Len(e) # 2 THEN Ret(Zero)
    ELSE Ret(BandScore(cosine_similarity(e[1], e[2]), C060,
                       IF Has(th, "high_similarity") THEN th["high_similarity"] ELSE C085))

\* Test 10
evaluate_cross_year(th, e) ==
    IF Len(e) # 2 THEN Ret(Zero)
    ELSE Ret(BandScore(cosine_similarity(e[1], e[2]), C060, C085))

TestIds == {"test_1", "test_2", "test_3", "test_4", "test_5",
            "test_6", "test_7", "test_8", "test_9", "test_10"}

\* the test_evaluators dispatch table of _evaluate_all_tests
test_evaluators(t, th, e) ==
    CASE t = "test_1" -> evaluate_price_extremes(th, e)
      [] t = "test_2" -> evaluate_single_option_diff(th, e)
      [] t = "test_3" -> evaluate_model_year_sensitivity(th, e)
      [] t = "test_4" -> evaluate_color_sensitivity(th, e)
      [] t = "test_5" -> evaluate_trim_similarity(th, e)
      [] t = "test_6" -> evaluate_vehicle_line_separation(th, e)
      [] t = "test_7" -> evaluate_derivative_clustering(th, e)
      [] t = "test_8" -> evaluate_feature_correlation(th, e)
      [] t = "test_9" -> evaluate_transitivity(th, e)
      [] t = "test_10" -> evaluate_cross_year(th, e)

(***************************************************************************)
(* Engine construction (EvaluationEngine.__init__).                        *)
(***************************************************************************)
DefaultWeights ==
    [price_extremes |-> Q(15, 100), single_option_difference |-> Q(15, 100),
     model_year_sensitivity |-> Q(10, 100), color_sensitivity |-> Q(10, 100),
     trim_level_similarity |-> Q(10, 100), vehicle_line_separation |-> Q(10, 100),
     derivative_clustering |-> Q(10, 100), feature_count_correlation |-> Q(10, 100),
     transitivity |-> Q(5, 100), cross_year_comparison |-> Q(5, 100)]

DefaultThresholds ==
    [high_similarity |-> Q(85, 100), low_similarity |-> Q(30, 100),
     single_option_diff_min |-> Q(75, 100)]

\* a config object without a test_data attribute (or no config at all)
NoConfig == [has_test_data |-> FALSE]

TestDataConfig(w, th) == [has_test_data |-> TRUE, test_weights |-> w, thresholds |-> th]

EngineWeights(config) ==
    IF config.has_test_data THEN config.test_weights ELSE DefaultWeights

EngineThresholds(config) ==
    IF config.has_test_data THEN config.thresholds ELSE DefaultThresholds

\* threshold overrides used as configurations
ThZeroMin == [DefaultThresholds EXCEPT !["single_option_diff_min"] = Zero]

ThLow065 == [DefaultThresholds EXCEPT !["low_similarity"] = C065]

ThHigh065 == [DefaultThresholds EXCEPT !["high_similarity"] = C065]

ThHigh070 == [DefaultThresholds EXCEPT !["high_similarity"] = C070]

ThNoHigh == [k \in {"low_similarity", "single_option_diff_min"} |-> DefaultThresholds[k]]

EvalConfigs ==
    {NoConfig, TestDataConfig(DefaultWeights, ThLow065),
     TestDataConfig(DefaultWeights, ThNoHigh), TestDataConfig(DefaultWeights, ThZeroMin),
     TestDataConfig(DefaultWeights, ThHigh065), TestDataConfig(DefaultWeights, ThHigh070)}

\* ThresholdConfig invariant of the data model: all three names, low < high
WellFormed(th) ==
    /\ DOMAIN th = {"high_similarity", "low_similarity", "single_option_diff_min"}
    /\ FLt(th["low_similarity"], th["high_similarity"])

(***************************************************************************)
(* Submissions: the JSON value passed as `results`.                        *)
(*   results        [kind, keys, processed_data, metadata]                 *)
(*                  kind "dict": a mapping holding the keys `keys`         *)
(*                  kind "list": a list holding the strings `keys`         *)
(*                  kind "scalar": None, a number or a boolean             *)
(*   processed_data [kind, tests, order]  tests: test id -> test entry;    *)
(*                  order: the keys in the order the mapping holds them    *)
(*   test entry     [kind, has_embeddings, embeddings]                     *)
(*   embeddings     [kind, rows]   "rows": non-empty list of equal-length  *)
(*                  rows; "ragged": rows of unequal length; "empty": []    *)
(***************************************************************************)
EmbRows(rows) == [kind |-> "rows", rows |-> rows]

EmbRagged == [kind |-> "ragged", rows |-> <<>>]

EmbEmpty == [kind |-> "empty", rows |-> <<>>]

DictEntry(emb) == [kind |-> "dict", has_embeddings |-> TRUE, embeddings |-> emb]

NoKeyEntry == [kind |-> "dict", has_embeddings |-> FALSE, embeddings |-> EmbEmpty]

ListEntry == [kind |-> "list", has_embeddings |-> FALSE, embeddings |-> EmbEmpty]

EmptyFn == [x \in {} |-> Zero]

\* the keys K in the order test_1, ..., test_10, then any other key
KeyOrder(K) ==
    SelectSeq(<<"test_1", "test_2", "test_3", "test_4", "test_5", "test_6", "test_7",
                "test_8", "test_9", "test_10", "test_11">>, LAMBDA k : k \in K)

DictValue(tests) == [kind |-> "dict", tests |-> tests, order |-> KeyOrder(DOMAIN tests)]

ListValue == [kind |-> "list", tests |-> EmptyFn, order |-> <<>>]

DictResults(keys, pd, md) ==
    [kind |-> "dict", keys |-> keys, processed_data |-> pd, metadata |-> md]

ListResults(items) ==
    [kind |-> "list", keys |-> items, processed_data |-> ListValue, metadata |-> ListValue]

ScalarResults ==
    [kind |-> "scalar", keys |-> {}, processed_data |-> ListValue, metadata |-> ListValue]

\* outcome of a step of evaluate_submission: a value or a raised exception
\* (invoked: the evaluators called so far; raw: the unrounded test_scores)
Returned(v, inv) ==
    [raised |-> FALSE, exc |-> "", value |-> v, invoked |-> inv, raw |-> EmptyFn]

Raised(exc, inv) ==
    [raised |-> TRUE, exc |-> exc, value |-> [valid |-> FALSE], invoked |-> inv,
     raw |-> EmptyFn]

(***************************************************************************)
(* _validate_submission_format                                             *)
(***************************************************************************)
required_fields == <<"processed_data", "metadata">>

MissingField(field) ==
    [valid |-> FALSE, error |-> "Missing required field: " \o field]

\* the validation with the required fields checked in the other order
validate_submission_format_m(r) ==
    IF r.kind = "scalar" THEN Raised("TypeError", {})
    ELSE IF required_fields[2] \notin r.keys
         THEN Returned(MissingField(required_fields[2]), {})
    ELSE IF required_fields[1] \notin r.keys
         THEN Returned(MissingField(required_fields[1]), {})
    ELSE IF r.kind = "list" THEN Raised("TypeError", {})
    ELSE IF r.processed_data.kind # "dict"
         THEN Returned([valid |-> FALSE, error |-> "processed_data must be a dictionary"], {})
    ELSE Returned([valid |-> TRUE], {})

validate_submission_format(r) ==
    IF r.kind = "scalar" THEN Raised("TypeError", {})
    ELSE IF required_fields[1] \notin r.keys
         THEN Returned(MissingField(required_fields[1]), {})
    ELSE IF required_fields[2] \notin r.keys
         THEN Returned(MissingField(required_fields[2]), {})
    ELSE IF r.kind = "list" THEN Raised("TypeError", {})
    ELSE IF r.processed_data.kind # "dict"
         THEN Returned([valid |-> FALSE, error |-> "processed_data must be a dictionary"], {})
    ELSE Returned([valid |-> TRUE], {})

(***************************************************************************)
(* _evaluate_all_tests                                                     *)
(***************************************************************************)
TestOrder == <<"test_1", "test_2", "test_3", "test_4", "test_5",
               "test_6", "test_7", "test_8", "test_9", "test_10">>

\* `if embeddings:` taken as true for every list
Truthy_m(emb) == TRUE

\* `if embeddings:` - an empty list is false, a non-empty list is true
Truthy(emb) == emb.kind # "empty"

\* np.array(embeddings): rows of unequal length raise ValueError
np_array(emb) == IF emb.kind = "ragged" THEN Raise ELSE Ret(emb.rows)

\* evaluator_func(embeddings=embeddings_array), reached only if np.array
\* has not raised
EvaluatorOutcome(t, th, embeddings_array) ==
    IF embeddings_array.raised THEN Raise
    ELSE test_evaluators(t, th, embeddings_array.val)

\* test_scores[test_id] = score, or 0.0 in the except clause
RecordScore(scores, t, sc) == scores @@ (t :> IF sc.raised THEN Zero ELSE sc.val)

EvaluatorsCalled(t, embeddings_array) == IF embeddings_array.raised THEN {} ELSE {t}

\* the loop body for dispatch-table entries i..10; scores and invoked are
\* test_scores and the set of evaluators called so far
RECURSIVE AllTestsFrom(_, _, _, _, _)
AllTestsFrom(th, tests, i, scores, invoked) ==
    IF i > Len(TestOrder) THEN Returned(scores, invoked)
    ELSE IF TestOrder[i] \notin DOMAIN tests
         THEN AllTestsFrom(th, tests, i + 1, scores, invoked)
    ELSE IF tests[TestOrder[i]].kind # "dict" THEN Raised("AttributeError", invoked)
    ELSE IF ~tests[TestOrder[i]].has_embeddings
            \/ ~Truthy(tests[TestOrder[i]].embeddings)
         THEN AllTestsFrom(th, tests, i + 1, scores, invoked)
    ELSE AllTestsFrom(th, tests, i + 1,
             RecordScore(scores, TestOrder[i],
                 EvaluatorOutcome(TestOrder[i], th,
                                  np_array(tests[TestOrder[i]].embeddings))),
             invoked \cup EvaluatorsCalled(TestOrder[i],
                                           np_array(tests[TestOrder[i]].embeddings)))

\* a loop that pairs the i-th entry of processed_data with the i-th evaluator
RECURSIVE AllTestsByPosition(_, _, _, _, _)
AllTestsByPosition(th, pd, i, scores, invoked) ==
    IF i > Len(pd.order) \/ i > Len(TestOrder) THEN Returned(scores, invoked)
    ELSE IF pd.tests[pd.order[i]].kind # "dict" THEN Raised("AttributeError", invoked)
    ELSE IF ~pd.tests[pd.order[i]].has_embeddings
            \/ ~Truthy(pd.tests[pd.order[i]].embeddings)
         THEN AllTestsByPosition(th, pd, i + 1, scores, invoked)
    ELSE AllTestsByPosition(th, pd, i + 1,
             RecordScore(scores, pd.order[i],
                 EvaluatorOutcome(TestOrder[i], th,
                                  np_array(pd.tests[pd.order[i]].embeddings))),
             invoked \cup EvaluatorsCalled(TestOrder[i],
                                           np_array(pd.tests[pd.order[i]].embeddings)))

\* _evaluate_all_tests pairing entries and evaluators by position
evaluate_all_tests_m(th, r) == AllTestsByPosition(th, r.processed_data, 1, EmptyFn, {})

evaluate_all_tests(th, r) == AllTestsFrom(th, r.processed_data.tests, 1, EmptyFn, {})

(***************************************************************************)
(* evaluate_submission                                                     *)
(***************************************************************************)
TestName ==
    [test_1 |-> "price_extremes", test_2 |-> "single_option_difference",
     test_3 |-> "model_year_sensitivity", test_4 |-> "color_sensitivity",
     test_5 |-> "trim_level_similarity", test_6 |-> "vehicle_line_separation",
     test_7 |-> "derivative_clustering", test_8 |-> "feature_count_correlation",
     test_9 |-> "transitivity", test_10 |-> "cross_year_comparison"]

\* self.test_weights.get(name, default)
test_weight_mapping(tw) ==
    [t \in TestIds |->
        IF TestName[t] \in DOMAIN tw THEN tw[TestName[t]] ELSE DefaultWeights[TestName[t]]]

ScoreOf(test_scores, t) == IF t \in DOMAIN test_scores THEN test_scores[t] ELSE Zero

RECURSIVE WeightedFrom(_, _, _)
WeightedFrom(test_scores, mapping, i) ==
    IF i > Len(TestOrder) THEN Zero
    ELSE FAdd(FMul(ScoreOf(test_scores, TestOrder[i]), mapping[TestOrder[i]]),
              WeightedFrom(test_scores, mapping, i + 1))

RECURSIVE PresentWeightFrom(_, _, _)
PresentWeightFrom(test_scores, mapping, i) ==
    IF i > Len(TestOrder) THEN Zero
    ELSE FAdd(IF TestOrder[i] \in DOMAIN test_scores THEN mapping[TestOrder[i]] ELSE Zero,
              PresentWeightFrom(test_scores, mapping, i + 1))

\* the weighted sum renormalised over the tests present
final_score_m(test_scores, tw) ==
    FDiv(WeightedFrom(test_scores, test_weight_mapping(tw), 1),
         PresentWeightFrom(test_scores, test_weight_mapping(tw), 1))

final_score(test_scores, tw) == WeightedFrom(test_scores, test_weight_mapping(tw), 1)

\* the valid result with the final score summed from the rounded scores
ValidResult_m(tw, test_scores, invoked) ==
    [raised |-> FALSE, exc |-> "",
     value |-> [valid |-> TRUE,
                score |-> Round3(final_score(
                              [k \in DOMAIN test_scores |-> Round3(test_scores[k])], tw)),
                details |-> [test_scores |->
                    [k \in DOMAIN test_scores |-> Round3(test_scores[k])]]],
     invoked |-> invoked, raw |-> test_scores]

\* the valid result built from test_scores
ValidResult(tw, test_scores, invoked) ==
    [raised |-> FALSE, exc |-> "",
     value |-> [valid |-> TRUE,
                score |-> Round3(final_score(test_scores, tw)),
                details |-> [test_scores |->
                    [k \in DOMAIN test_scores |-> Round3(test_scores[k])]]],
     invoked |-> invoked, raw |-> test_scores]

\* the try block after _evaluate_all_tests
Aggregate(tw, all) ==
    IF all.raised THEN all ELSE ValidResult(tw, all.value, all.invoked)

\* the try block after _validate_submission_format
AfterValidation(th, tw, r, validation_result) ==
    IF validation_result.raised THEN validation_result
    ELSE IF ~validation_result.value.valid
         THEN Returned([valid |-> FALSE, error |-> validation_result.value.error,
                        score |-> Zero], {})
    ELSE Aggregate(tw, evaluate_all_tests(th, r))

\* the body of the try block
evaluate_submission_try(th, tw, r) ==
    AfterValidation(th, tw, r, validate_submission_format(r))

\* except Exception as e: return the evaluation-error result
ExceptClause(body) ==
    IF body.raised
    THEN Returned([valid |-> FALSE, error |-> "Evaluation error: " \o body.exc,
                   score |-> Zero], body.invoked)
    ELSE body

\* evaluate_submission without the except clause
evaluate_submission_m(th, tw, r) == evaluate_submission_try(th, tw, r)

evaluate_submission(th, tw, r) == ExceptClause(evaluate_submission_try(th, tw, r))

(***************************************************************************)
(* Specification SpecEval: one call of one evaluator on an embeddings     *)
(* array, for every array of 1..MaxLen rows of VecPool (and the longer    *)
(* arrays of LongPool).                                                   *)
(***************************************************************************)
RECURSIVE SeqsOfLen(_, _)
SeqsOfLen(S, n) ==
    IF n = 0 THEN {<<>>}
    ELSE {<<x>> \o t : x \in S, t \in SeqsOfLen(S, n - 1)}

LongPool == {VE1, V30}

\* rows at the band edges and constants of the evaluators
EdgePool == {V65, V70a, V75, V60, V55, V80}

\* pairs at the edges, and the triple at 0.70 / 0.70 / 0.60 with a further row
EdgeArrays ==
    {<<VE1, v>> : v \in EdgePool}
    \cup {<<V70a, VE1, V70c>>, <<V70a, VE1, V70d>>}
    \cup {<<V70a, VE1, V70c, v>> : v \in {VE2, VN1}}

EmbeddingArrays ==
    UNION {SeqsOfLen(VecPool, n) : n \in 1..MaxLen}
    \cup SeqsOfLen(LongPool, MaxLen + 1)
    \cup EdgeArrays

NoCall == [raised |-> FALSE, val |-> Zero]

NoResults == [kind |-> "none"]

NoRet == Returned([valid |-> FALSE], {})

NoCalls == <<>>

\* no leaderboard and no submissions table take part
NoStore ==
    /\ leaderboard = <<>>
    /\ submissions = <<>>
    /\ history = <<>>

InitEval ==
    /\ \E config \in EvalConfigs :
          /\ thresholds = EngineThresholds(config)
          /\ test_weights = EngineWeights(config)
    /\ embeddings \in EmbeddingArrays
    /\ pc = "call"
    /\ test_id = "none"
    /\ score = NoCall
    /\ results = NoResults
    /\ ret = NoRet
    /\ calls = NoCalls
    /\ NoStore

\* evaluator_func(embeddings=embeddings_array) for the evaluator of test t
CallEvaluator(t) ==
    /\ pc = "call"
    /\ pc' = "returned"
    /\ test_id' = t
    /\ score' = test_evaluators(t, thresholds, embeddings)
    /\ UNCHANGED <<thresholds, test_weights, embeddings, results, ret, calls,
                 leaderboard, submissions, history>>

NextEval == \E t \in TestIds : CallEvaluator(t)

SpecEval == InitEval /\ [][NextEval]_vars

(***************************************************************************)
(* Specification SpecSub: one call of evaluate_submission on a submission *)
(* holding at most MaxTests test entries.                                  *)
(***************************************************************************)
HeavyWeights == [n \in DOMAIN DefaultWeights |-> Q(20, 100)]

SubConfigs ==
    {NoConfig, TestDataConfig(HeavyWeights, ThZeroMin),
     TestDataConfig(DefaultWeights, ThLow065), TestDataConfig(DefaultWeights, ThNoHigh)}

SubIds == TestIds \cup {"test_11"}

SubEntries ==
    {DictEntry(EmbRows(<<VE1, VE2>>)), DictEntry(EmbRows(<<VE1, V30>>)),
     DictEntry(EmbRows(<<VN1, VE1, VE2>>)), DictEntry(EmbRows(<<V65, VE1>>)),
     DictEntry(EmbRagged), DictEntry(EmbEmpty), NoKeyEntry, ListEntry}

TestMaps(n) ==
    UNION {[K -> SubEntries] : K \in {X \in SUBSET SubIds : Cardinality(X) <= n}}

MetadataDict == DictValue(EmptyFn)

FieldNames == {"processed_data", "metadata"}

\* submissions of the expected shape, and the malformed shapes around a
\* processed_data of at most one entry
SubmissionPool ==
    {DictResults(FieldNames, DictValue(m), MetadataDict) : m \in TestMaps(MaxTests)}
    \cup {DictResults(keys, pd, md) :
            keys \in SUBSET FieldNames,
            pd \in {DictValue(m) : m \in TestMaps(1)} \cup {ListValue},
            md \in {MetadataDict, ListValue}}
    \cup {ListResults(items) : items \in SUBSET FieldNames}
    \cup {ScalarResults}

InitSub ==
    /\ \E config \in SubConfigs :
          /\ thresholds = EngineThresholds(config)
          /\ test_weights = EngineWeights(config)
    /\ results \in SubmissionPool
    /\ pc = "call"
    /\ ret = NoRet
    /\ test_id = "none"
    /\ embeddings = <<>>
    /\ score = NoCall
    /\ calls = NoCalls
    /\ NoStore

\* evaluation_engine.evaluate_submission(..., results=results, ...)
EvaluateSubmission ==
    /\ pc = "call"
    /\ pc' = "done"
    /\ ret' = evaluate_submission(thresholds, test_weights, results)
    /\ UNCHANGED <<thresholds, test_weights, results, test_id, embeddings, score, calls,
                 leaderboard, submissions, history>>

NextSub == EvaluateSubmission

SpecSub == InitSub /\ [][NextSub]_vars

(***************************************************************************)
(* Specification SpecWeights: one call of evaluate_submission on an engine *)
(* constructed with a weight configuration keyed by test identifier.       *)
(***************************************************************************)
WeightsById == [t \in TestIds |-> Q(10, 100)]

WeightConfigs == {TestDataConfig(WeightsById, DefaultThresholds)}

InitWeights ==
    /\ \E config \in WeightConfigs :
          /\ thresholds = EngineThresholds(config)
          /\ test_weights = EngineWeights(config)
    /\ results \in {DictResults(FieldNames, DictValue(m), MetadataDict) :
                        m \in TestMaps(MaxTests)}
    /\ pc = "call"
    /\ ret = NoRet
    /\ test_id = "none"
    /\ embeddings = <<>>
    /\ score = NoCall
    /\ calls = NoCalls
    /\ NoStore

SpecWeights == InitWeights /\ [][NextSub]_vars

(***************************************************************************)
(* Specification SpecConc: two request threads call evaluate_submission on *)
(* the one engine of the process; the calls interleave statement by        *)
(* statement (validation, each iteration of the test loop, aggregation),   *)
(* and a thread runs up to MaxEvaluations calls one after another.         *)
(***************************************************************************)
Callers == {"request_1", "request_2"}

\* the arguments of evaluate_submission besides `results`
Metas ==
    {[participant_name |-> "alice", submission_tag |-> "v1", test_data_id |-> "data_a"],
     [participant_name |-> "bob", submission_tag |-> "v2", test_data_id |-> "data_b"]}

ConcSubmissions ==
    {DictResults(FieldNames,
                 DictValue("test_1" :> DictEntry(EmbRows(<<VE1, VE2>>))
                           @@ "test_3" :> DictEntry(EmbRows(<<V65, VE1>>))),
                 MetadataDict),
     DictResults(FieldNames,
                 DictValue("test_1" :> DictEntry(EmbRagged)
                           @@ "test_2" :> DictEntry(EmbRows(<<VN1, VE1, VE2>>))),
                 MetadataDict),
     DictResults(FieldNames,
                 DictValue("test_2" :> DictEntry(EmbRows(<<VE1, V30, V30>>))
                           @@ "test_4" :> ListEntry),
                 MetadataDict),
     DictResults({"processed_data"}, DictValue(EmptyFn), MetadataDict),
     ScalarResults}

ConcConfigs == {NoConfig, TestDataConfig(HeavyWeights, ThZeroMin)}

IdleFrame ==
    [pc |-> "idle", n |-> 0, meta |-> CHOOSE m \in Metas : TRUE, results |-> NoResults,
     i |-> 0, test_scores |-> EmptyFn, out |-> NoRet, overlapped |-> FALSE]

Busy(f) == f.pc \in {"validate", "tests", "aggregate"}

\* another request is inside evaluate_submission
OthersBusy(c) == \E d \in Callers \ {c} : Busy(calls[d])

\* test_scores = {} : a dictionary kept from the previous evaluation
fresh_test_scores_m(previous) == previous

\* test_scores = {} : a new dictionary local to the call
fresh_test_scores(previous) == EmptyFn

\* the return of the invalid result, or the exception of the validation
\* handled by the except clause
Rejection(v) ==
    ExceptClause(IF v.raised THEN v
                 ELSE Returned([valid |-> FALSE, error |-> v.value.error,
                                score |-> Zero], {}))

\* the frame after validation_result = self._validate_submission_format(...)
AfterValidateStep(f, v) ==
    IF v.raised \/ ~v.value.valid
    THEN [f EXCEPT !.pc = "done", !.out = Rejection(v)]
    ELSE [f EXCEPT !.pc = "tests", !.i = 1,
                   !.test_scores = fresh_test_scores(f.test_scores)]

\* one iteration of the loop of _evaluate_all_tests, for test id t
LoopBody(th, tests, t, scores) ==
    IF t \notin DOMAIN tests THEN Returned(scores, {})
    ELSE IF tests[t].kind # "dict" THEN Raised("AttributeError", {})
    ELSE IF ~tests[t].has_embeddings \/ ~Truthy(tests[t].embeddings)
         THEN Returned(scores, {})
    ELSE Returned(RecordScore(scores, t,
                      EvaluatorOutcome(t, th, np_array(tests[t].embeddings))), {})

\* the frame after one iteration whose outcome is o
AfterTestStep(f, o) ==
    IF o.raised THEN [f EXCEPT !.pc = "done", !.out = ExceptClause(o)]
    ELSE [f EXCEPT !.pc = IF f.i = Len(TestOrder) THEN "aggregate" ELSE "tests",
                   !.i = f.i + 1, !.test_scores = o.value]

Overlap(f, c) == [f EXCEPT !.overlapped = f.overlapped \/ OthersBusy(c)]

InitConc ==
    /\ \E config \in ConcConfigs :
          /\ thresholds = EngineThresholds(config)
          /\ test_weights = EngineWeights(config)
    /\ calls = [c \in Callers |-> IdleFrame]
    /\ NoStore
    /\ pc = "serving"
    /\ test_id = "none"
    /\ embeddings = <<>>
    /\ score = NoCall
    /\ results = NoResults
    /\ ret = NoRet

\* a request enters evaluate_submission with its arguments
Begin(c) ==
    /\ calls[c].pc \in {"idle", "done"}
    /\ calls[c].n < MaxEvaluations
    /\ \E m \in Metas, r \in ConcSubmissions :
          calls' = [calls EXCEPT ![c] =
                       Overlap([@ EXCEPT !.pc = "validate", !.n = @ + 1, !.meta = m,
                                         !.results = r, !.i = 0, !.out = NoRet,
                                         !.overlapped = FALSE], c)]
    /\ UNCHANGED <<thresholds, test_weights, pc, test_id, embeddings, score, results, ret,
                 leaderboard, submissions, history>>

\* validation_result = self._validate_submission_format(results=results)
\* and, if valid, the entry of _evaluate_all_tests
Validate(c) ==
    /\ calls[c].pc = "validate"
    /\ calls' = [calls EXCEPT ![c] =
                    Overlap(AfterValidateStep(@, validate_submission_format(@.results)), c)]
    /\ UNCHANGED <<thresholds, test_weights, pc, test_id, embeddings, score, results, ret,
                 leaderboard, submissions, history>>

\* one iteration of the loop over test_evaluators
TestStep(c) ==
    /\ calls[c].pc = "tests"
    /\ calls' = [calls EXCEPT ![c] =
                    Overlap(AfterTestStep(@, LoopBody(thresholds,
                                                      @.results.processed_data.tests,
                                                      TestOrder[@.i], @.test_scores)), c)]
    /\ UNCHANGED <<thresholds, test_weights, pc, test_id, embeddings, score, results, ret,
                 leaderboard, submissions, history>>

\* the weighted sum, the rounding and the return of the valid result
AggregateStep(c) ==
    /\ calls[c].pc = "aggregate"
    /\ calls' = [calls EXCEPT ![c] =
                    Overlap([@ EXCEPT !.pc = "done",
                                      !.out = ValidResult(test_weights, calls[c].test_scores, {})],
                            c)]
    /\ UNCHANGED <<thresholds, test_weights, pc, test_id, embeddings, score, results, ret,
                 leaderboard, submissions, history>>

NextConc ==
    \E c \in Callers : Begin(c) \/ Validate(c) \/ TestStep(c) \/ AggregateStep(c)

SpecConc == InitConc /\ [][NextConc]_vars

(***************************************************************************)
(* The CSV leaderboard (src/leaderboard_manager.py).  The file is a        *)
(* sequence of rows under the header; the score column holds the text      *)
(* str(score), read back with float().  Scores are decimals of at most     *)
(* three places, as round(x, 3) produces them.  A timestamp is the number  *)
(* of the call that took it.                                               *)
(***************************************************************************)
MaxUpdates == 3      \* most update_leaderboard calls in one behaviour

Participants == {"alice", "bob"}

Tags == {"v1", "v2"}

ScorePool == {Q(1, 4), Q(1, 2), Q(55, 1000), One}

Pow10(k) == IF k = 0 THEN 1 ELSE IF k = 1 THEN 10 ELSE IF k = 2 THEN 100 ELSE 1000

\* the k decimal digits of m, most significant first
DigitsOf(m, k) == [i \in 1..k |-> (m \div Pow10(k - i)) % 10]

\* the digits without trailing zeros, keeping one digit
RECURSIVE StripZeros(_)
StripZeros(ds) ==
    IF Len(ds) > 1 /\ ds[Len(ds)] = 0 THEN StripZeros(SubSeq(ds, 1, Len(ds) - 1))
    ELSE ds

\* str(score): sign, integer part and decimals of the shortest decimal text
float_to_str(q) ==
    [neg |-> q[1] < 0,
     whole |-> (Abs(q[1]) * (1000 \div q[2])) \div 1000,
     frac |-> StripZeros(DigitsOf((Abs(q[1]) * (1000 \div q[2])) % 1000, 3))]

\* the value of the digits ds read as an integer
RECURSIVE DigitsValue(_)
DigitsValue(ds) ==
    IF ds = <<>> THEN 0
    ELSE 10 * DigitsValue(SubSeq(ds, 1, Len(ds) - 1)) + ds[Len(ds)]

\* float(text)
str_to_float(t) ==
    Q((IF t.neg THEN -1 ELSE 1) * (t.whole * Pow10(Len(t.frac)) + DigitsValue(t.frac)),
      Pow10(Len(t.frac)))

\* the row written for a submission
NewRow(participant_name, submission_tag, timestamp, s) ==
    [participant_name |-> participant_name, submission_tag |-> submission_tag,
     timestamp |-> timestamp, score |-> float_to_str(s)]

\* index of the first row of the participant, 0 if there is none
FirstRow(rows, participant_name) ==
    IF \E i \in 1..Len(rows) : rows[i].participant_name = participant_name
    THEN CHOOSE i \in 1..Len(rows) :
            /\ rows[i].participant_name = participant_name
            /\ \A j \in 1..(i - 1) : rows[j].participant_name # participant_name
    ELSE 0

\* the loop over existing_data replacing the row when the new score is not lower
MergeRow_m(rows, participant_name, submission_tag, timestamp, s) ==
    IF FirstRow(rows, participant_name) = 0
    THEN Append(rows, NewRow(participant_name, submission_tag, timestamp, s))
    ELSE IF FLe(str_to_float(rows[FirstRow(rows, participant_name)].score), s)
         THEN [rows EXCEPT ![FirstRow(rows, participant_name)] =
                   NewRow(participant_name, submission_tag, timestamp, s)]
         ELSE rows

\* the loop over existing_data and the append of a new participant
MergeRow(rows, participant_name, submission_tag, timestamp, s) ==
    IF FirstRow(rows, participant_name) = 0
    THEN Append(rows, NewRow(participant_name, submission_tag, timestamp, s))
    ELSE IF FLt(str_to_float(rows[FirstRow(rows, participant_name)].score), s)
         THEN [rows EXCEPT ![FirstRow(rows, participant_name)] =
                   NewRow(participant_name, submission_tag, timestamp, s)]
         ELSE rows

\* row r put behind the rows of sorted whose score is not lower
InsertRow(sorted, r) ==
    [i \in 1..(Len(sorted) + 1) |->
        IF i <= Cardinality({j \in 1..Len(sorted) :
                                FGe(str_to_float(sorted[j].score), str_to_float(r.score))})
        THEN sorted[i]
        ELSE IF i = 1 + Cardinality({j \in 1..Len(sorted) :
                                FGe(str_to_float(sorted[j].score), str_to_float(r.score))})
             THEN r
             ELSE sorted[i - 1]]

\* existing_data.sort(key=float(score), reverse=True): stable, descending
RECURSIVE SortByScore(_)
SortByScore(rows) ==
    IF rows = <<>> THEN <<>>
    ELSE InsertRow(SortByScore(SubSeq(rows, 1, Len(rows) - 1)), rows[Len(rows)])

\* the file written by update_leaderboard from the rows it read
update_leaderboard(rows, participant_name, submission_tag, timestamp, s) ==
    SortByScore(MergeRow(rows, participant_name, submission_tag, timestamp, s))

\* the arguments of one update_leaderboard call and the timestamp it took
Submitted(participant_name, submission_tag, timestamp, s) ==
    [participant_name |-> participant_name, submission_tag |-> submission_tag,
     timestamp |-> timestamp, score |-> s]

(***************************************************************************)
(* Specification SpecCsv: update_leaderboard calls one after another on a  *)
(* file that starts with the header only.                                  *)
(***************************************************************************)
InitCsv ==
    /\ thresholds = EngineThresholds(NoConfig)
    /\ test_weights = EngineWeights(NoConfig)
    /\ pc = "leaderboard"
    /\ test_id = "none"
    /\ embeddings = <<>>
    /\ score = NoCall
    /\ results = NoResults
    /\ ret = NoRet
    /\ calls = NoCalls
    /\ leaderboard = <<>>
    /\ submissions = <<>>
    /\ history = <<>>

\* one whole call update_leaderboard(participant_name, submission_tag, score)
UpdateLeaderboard(participant_name, submission_tag, s) ==
    /\ Len(history) < MaxUpdates
    /\ leaderboard' = update_leaderboard(leaderboard, participant_name, submission_tag,
                                         Len(history) + 1, s)
    /\ history' = Append(history,
                     Submitted(participant_name, submission_tag, Len(history) + 1, s))
    /\ UNCHANGED <<thresholds, test_weights, pc, test_id, embeddings, score, results, ret,
                   calls, submissions>>

NextCsv ==
    \E p \in Participants, t \in Tags, s \in ScorePool : UpdateLeaderboard(p, t, s)

SpecCsv == InitCsv /\ [][NextCsv]_vars

(***************************************************************************)
(* Specification SpecCsvConc: two threads call update_leaderboard on the   *)
(* same file.  A call takes its timestamp and reads the file in one step   *)
(* and, after working on its in-memory copy, rewrites the file in another; *)
(* the code takes no lock around the two.                                  *)
(***************************************************************************)
IdleUpdate == [pc |-> "idle", existing_data |-> <<>>,
               args |-> Submitted("alice", "v1", 0, Zero)]

\* the calls begun so far
Begun == Len(history) + Cardinality({c \in Callers : calls[c].pc = "write"})

InitCsvConc ==
    /\ thresholds = EngineThresholds(NoConfig)
    /\ test_weights = EngineWeights(NoConfig)
    /\ pc = "leaderboard"
    /\ test_id = "none"
    /\ embeddings = <<>>
    /\ score = NoCall
    /\ results = NoResults
    /\ ret = NoRet
    /\ calls = [c \in Callers |-> IdleUpdate]
    /\ leaderboard = <<>>
    /\ submissions = <<>>
    /\ history = <<>>

\* timestamp = datetime.utcnow().isoformat() and existing_data = list(reader)
ReadFile(c, participant_name, submission_tag, s) ==
    /\ calls[c].pc = "idle"
    /\ Begun < MaxUpdates
    /\ calls' = [calls EXCEPT ![c] =
                    [pc |-> "write", existing_data |-> leaderboard,
                     args |-> Submitted(participant_name, submission_tag, Begun + 1, s)]]
    /\ UNCHANGED <<thresholds, test_weights, pc, test_id, embeddings, score, results, ret,
                   leaderboard, submissions, history>>

\* the merge and sort of existing_data and the rewrite of the whole file
WriteFile(c) ==
    /\ calls[c].pc = "write"
    /\ leaderboard' = update_leaderboard(calls[c].existing_data,
                                         calls[c].args.participant_name,
                                         calls[c].args.submission_tag,
                                         calls[c].args.timestamp, calls[c].args.score)
    /\ history' = Append(history, calls[c].args)
    /\ calls' = [calls EXCEPT ![c] = [@ EXCEPT !.pc = "idle", !.existing_data = <<>>]]
    /\ UNCHANGED <<thresholds, test_weights, pc, test_id, embeddings, score, results, ret,
                   submissions>>

NextCsvConc ==
    \E c \in Callers :
        \/ \E p \in Participants, t \in Tags, s \in ScorePool : ReadFile(c, p, t, s)
        \/ WriteFile(c)

SpecCsvConc == InitCsvConc /\ [][NextCsvConc]_vars

(***************************************************************************)
(* The submission endpoint (src/app.py, submit_results) with the           *)
(* PostgreSQL leaderboard (src/src/core/leaderboard_manager.py) and the    *)
(* submissions table (src/src/core/submissions_manager.py).  The           *)
(* leaderboard table maps <<participant_name, submission_tag>>, its unique *)
(* key, to timestamp and score; a database statement either commits or     *)
(* fails with an exception.                                                *)
(***************************************************************************)
MaxRequests == 1     \* most requests one server thread handles

\* INSERT ... ON CONFLICT (participant_name, submission_tag) DO UPDATE SET
\* score = EXCLUDED.score, timestamp = EXCLUDED.timestamp
core_update_leaderboard(table, participant_name, submission_tag, timestamp, s) ==
    [k \in DOMAIN table \cup {<<participant_name, submission_tag>>} |->
        IF k = <<participant_name, submission_tag>>
        THEN [timestamp |-> timestamp, score |-> s]
        ELSE table[k]]

\* RANK() OVER (ORDER BY score DESC) of the row k
RankOf(table, k) ==
    1 + Cardinality({j \in DOMAIN table : FGt(table[j].score, table[k].score)})

\* the values get_participant_rank can return: the rank of one of the
\* participant's rows (LIMIT 1 without an order), 0 if there is none
core_get_participant_rank(table, participant_name) ==
    IF \E k \in DOMAIN table : k[1] = participant_name
    THEN {RankOf(table, k) : k \in {j \in DOMAIN table : j[1] = participant_name}}
    ELSE {0}

\* record_submission letting a database error escape
record_submission_m(table, user_name, submission_tag, final, scores, rank, db_ok) ==
    IF db_ok
    THEN [raised |-> FALSE, value |-> TRUE,
          table |-> [k \in DOMAIN table \cup {<<user_name, submission_tag>>} |->
                        IF k = <<user_name, submission_tag>>
                        THEN [final_score |-> final, leaderboard_rank |-> rank,
                              test_scores |-> scores]
                        ELSE table[k]]]
    ELSE [raised |-> TRUE, value |-> FALSE, table |-> table]

\* record_submission: the upsert into user_submissions, True; False when
\* anything in the body raised
record_submission(table, user_name, submission_tag, final, scores, rank, db_ok) ==
    IF db_ok
    THEN [raised |-> FALSE, value |-> TRUE,
          table |-> [k \in DOMAIN table \cup {<<user_name, submission_tag>>} |->
                        IF k = <<user_name, submission_tag>>
                        THEN [final_score |-> final, leaderboard_rank |-> rank,
                              test_scores |-> scores]
                        ELSE table[k]]]
    ELSE [raised |-> FALSE, value |-> FALSE, table |-> table]

\* the JSON payload of a request
Payload(fields, participant_name, submission_tag, r) ==
    [fields |-> fields, participant_name |-> participant_name,
     submission_tag |-> submission_tag, results |-> r]

PayloadFields == {"participant_name", "submission_tag", "results", "test_data_id"}

AppResults ==
    {DictResults(FieldNames, DictValue("test_1" :> DictEntry(EmbRows(<<VE1, VE2>>))),
                 MetadataDict),
     DictResults(FieldNames, DictValue("test_5" :> DictEntry(EmbRows(<<VE1, V30>>))),
                 MetadataDict),
     DictResults({"processed_data"}, DictValue(EmptyFn), MetadataDict)}

Payloads ==
    {Payload(PayloadFields, p, "v1", r) : p \in Participants, r \in AppResults}
    \cup {Payload({}, "alice", "v1", ScalarResults),
          Payload(PayloadFields \ {"test_data_id"}, "alice", "v1", ScalarResults)}

\* a call made by the handler, as the request's log keeps it
Called(op, s, ok) == [op |-> op, score |-> s, ok |-> ok]

\* the response of the handler
Response(code, status, s, rank) == [code |-> code, status |-> status, score |-> s, rank |-> rank]

NoResponse == Response(0, "none", Zero, 0)

IdleRequest ==
    [pc |-> "idle", n |-> 0, data |-> Payload({}, "alice", "v1", ScalarResults),
     evaluation_result |-> [valid |-> FALSE, score |-> Zero],
     current_rank |-> 0, success |-> FALSE, log |-> <<>>, response |-> NoResponse]

\* the frame of a request that returns the response r
Responded(f, r) == [f EXCEPT !.pc = "done", !.response = r]

\* data = request.get_json() and the two checks of the payload
AfterPayload(f, data) ==
    IF data.fields = {} THEN Responded([f EXCEPT !.data = data], Response(400, "none", Zero, 0))
    ELSE IF PayloadFields \ data.fields # {}
         THEN Responded([f EXCEPT !.data = data], Response(400, "none", Zero, 0))
    ELSE [f EXCEPT !.pc = "evaluate", !.data = data]

\* the handler going on to the leaderboard whatever the evaluation says
AfterEvaluation_m(f, out) ==
    IF out.raised
    THEN Responded([f EXCEPT !.log = Append(@, Called("evaluate_submission", Zero, FALSE))],
                   Response(500, "none", Zero, 0))
    ELSE [f EXCEPT !.pc = "update", !.evaluation_result = out.value,
                   !.log = Append(@, Called("evaluate_submission", out.value.score,
                                            out.value.valid))]

\* evaluation_result = evaluation_engine.evaluate_submission(...) and the
\* check of evaluation_result["valid"]
AfterEvaluation(f, out) ==
    IF out.raised
    THEN Responded([f EXCEPT !.log = Append(@, Called("evaluate_submission", Zero, FALSE))],
                   Response(500, "none", Zero, 0))
    ELSE IF ~out.value.valid
         THEN Responded([f EXCEPT !.evaluation_result = out.value,
                                  !.log = Append(@, Called("evaluate_submission",
                                                           out.value.score, FALSE))],
                        Response(400, "error", Zero, 0))
    ELSE [f EXCEPT !.pc = "update", !.evaluation_result = out.value,
                   !.log = Append(@, Called("evaluate_submission", out.value.score, TRUE))]

\* the return of leaderboard_manager.update_leaderboard, or its exception
\* caught by the handler's except clause
AfterUpdate(f, db_ok) ==
    IF db_ok
    THEN [f EXCEPT !.pc = "rank",
                   !.log = Append(@, Called("update_leaderboard",
                                            f.evaluation_result.score, TRUE))]
    ELSE Responded([f EXCEPT !.log = Append(@, Called("update_leaderboard",
                                                      f.evaluation_result.score, FALSE))],
                   Response(500, "none", Zero, 0))

\* the return of get_participant_rank, or its exception
AfterRank(f, rank, db_ok) ==
    IF db_ok
    THEN [f EXCEPT !.pc = "record", !.current_rank = rank,
                   !.log = Append(@, Called("get_participant_rank", Zero, TRUE))]
    ELSE Responded([f EXCEPT !.log = Append(@, Called("get_participant_rank", Zero, FALSE))],
                   Response(500, "none", Zero, 0))

\* success = submissions_manager.record_submission(...)
AfterRecord(f, out, db_ok) ==
    IF out.raised
    THEN Responded([f EXCEPT !.log = Append(@, Called("record_submission",
                                                      f.evaluation_result.score, db_ok))],
                   Response(500, "none", Zero, 0))
    ELSE [f EXCEPT !.pc = "respond", !.success = out.value,
                   !.log = Append(@, Called("record_submission",
                                            f.evaluation_result.score, db_ok))]

\* test_scores = evaluation_result.get("details", {}).get("test_scores", {})
DetailScores(evaluation_result) ==
    IF "details" \in DOMAIN evaluation_result
    THEN evaluation_result.details.test_scores
    ELSE EmptyFn

(***************************************************************************)
(* Specification SpecApp: the server threads handle submit_results         *)
(* requests; the engine is constructed from the application configuration, *)
(* which has no test_data section.                                         *)
(***************************************************************************)
InitApp ==
    /\ thresholds = EngineThresholds(NoConfig)
    /\ test_weights = EngineWeights(NoConfig)
    /\ pc = "serving"
    /\ test_id = "none"
    /\ embeddings = <<>>
    /\ score = NoCall
    /\ results = NoResults
    /\ ret = NoRet
    /\ calls = [c \in Callers |-> IdleRequest]
    /\ leaderboard = <<>>
    /\ submissions = <<>>
    /\ history = <<>>

\* a request arrives and its payload is checked
SubmitResults(c) ==
    /\ calls[c].pc \in {"idle", "done"}
    /\ calls[c].n < MaxRequests
    /\ \E data \in Payloads :
          calls' = [calls EXCEPT ![c] =
                       AfterPayload([IdleRequest EXCEPT !.n = calls[c].n + 1], data)]
    /\ UNCHANGED <<thresholds, test_weights, pc, test_id, embeddings, score, results, ret,
                   leaderboard, submissions, history>>

\* the call of evaluate_submission and the check of its result
Evaluate(c) ==
    /\ calls[c].pc = "evaluate"
    /\ calls' = [calls EXCEPT ![c] =
                    AfterEvaluation(@, evaluate_submission(thresholds, test_weights,
                                                           @.data.results))]
    /\ UNCHANGED <<thresholds, test_weights, pc, test_id, embeddings, score, results, ret,
                   leaderboard, submissions, history>>

\* leaderboard_manager.update_leaderboard(participant_name, submission_tag, score)
CallUpdateLeaderboard(c) ==
    /\ calls[c].pc = "update"
    /\ \E db_ok \in BOOLEAN :
          /\ calls' = [calls EXCEPT ![c] = AfterUpdate(@, db_ok)]
          /\ leaderboard' =
                IF db_ok
                THEN core_update_leaderboard(leaderboard, calls[c].data.participant_name,
                                             calls[c].data.submission_tag,
                                             Len(history) + 1,
                                             calls[c].evaluation_result.score)
                ELSE leaderboard
          /\ history' =
                IF db_ok
                THEN Append(history, Submitted(calls[c].data.participant_name,
                                               calls[c].data.submission_tag,
                                               Len(history) + 1,
                                               calls[c].evaluation_result.score))
                ELSE history
    /\ UNCHANGED <<thresholds, test_weights, pc, test_id, embeddings, score, results, ret,
                   submissions>>

\* current_rank = leaderboard_manager.get_participant_rank(participant_name)
CallGetParticipantRank(c) ==
    /\ calls[c].pc = "rank"
    /\ \E db_ok \in BOOLEAN,
          rank \in core_get_participant_rank(leaderboard, calls[c].data.participant_name) :
          calls' = [calls EXCEPT ![c] = AfterRank(@, rank, db_ok)]
    /\ UNCHANGED <<thresholds, test_weights, pc, test_id, embeddings, score, results, ret,
                   leaderboard, submissions, history>>

\* the outcome of record_submission for the request of c
RecordOutcome(c, db_ok) ==
    record_submission(submissions, calls[c].data.participant_name,
                      calls[c].data.submission_tag, calls[c].evaluation_result.score,
                      DetailScores(calls[c].evaluation_result),
                      calls[c].current_rank, db_ok)

\* success = submissions_manager.record_submission(...)
CallRecordSubmission(c) ==
    /\ calls[c].pc = "record"
    /\ \E db_ok \in BOOLEAN :
          /\ calls' = [calls EXCEPT ![c] = AfterRecord(@, RecordOutcome(c, db_ok), db_ok)]
          /\ submissions' = RecordOutcome(c, db_ok).table
    /\ UNCHANGED <<thresholds, test_weights, pc, test_id, embeddings, score, results, ret,
                   leaderboard, history>>

\* the warning when success is False, and the success response
ReturnSuccess(c) ==
    /\ calls[c].pc = "respond"
    /\ calls' = [calls EXCEPT ![c] =
                    Responded(@, Response(200, "success", @.evaluation_result.score,
                                          @.current_rank))]
    /\ UNCHANGED <<thresholds, test_weights, pc, test_id, embeddings, score, results, ret,
                   leaderboard, submissions, history>>

NextApp ==
    \E c \in Callers :
        \/ SubmitResults(c)
        \/ Evaluate(c)
        \/ CallUpdateLeaderboard(c)
        \/ CallGetParticipantRank(c)
        \/ CallRecordSubmission(c)
        \/ ReturnSuccess(c)

SpecApp == InitApp /\ [][NextApp]_vars

(***************************************************************************)
(* Properties of the evaluators (checked under SpecEval).                  *)
(***************************************************************************)
InUnit(x) == FLe(Zero, x) /\ FLe(x, One)

\* C1: every evaluator returns a score in [0,1], for every embedding set
\* and every ThresholdConfig with low_similarity < high_similarity
C1_ScoreInUnitInterval ==
    (pc = "returned" /\ WellFormed(thresholds))
        => (~score.raised /\ InUnit(score.val))

\* the number of embeddings each test accepts
CountAccepted(t, n) ==
    CASE t \in {"test_1", "test_3", "test_4", "test_10"} -> n = 2
      [] t \in {"test_2", "test_8"} -> n = 3
      [] t = "test_7" -> n = 4
      [] t \in {"test_5", "test_6"} -> n >= 2
      [] t = "test_9" -> n >= 3

\* C9: an evaluator given a number of embeddings it does not accept returns
\* 0.0 and does not raise (whatever the thresholds are)
C9_WrongCountScoresZero ==
    (pc = "returned" /\ ~CountAccepted(test_id, Len(embeddings)))
        => (~score.raised /\ score.val = Zero)

C9_Witness ==
    /\ pc = "returned"
    /\ test_id = "test_7"
    /\ Len(embeddings) = 5
    /\ score = Ret(Zero)

\* C10: test 1 on two embeddings is 1 below low, 0 above high and
\* (high - sim)/(high - low) in between; so it is 1 at sim = low, 0 at
\* sim = high, and no pair of higher similarity scores more
C10_PriceExtremesPiecewise ==
    (pc = "returned" /\ test_id = "test_1" /\ Len(embeddings) = 2
        /\ WellFormed(thresholds))
    => LET sim == cosine_similarity(embeddings[1], embeddings[2])
           low == thresholds["low_similarity"]
           high == thresholds["high_similarity"]
       IN  /\ ~score.raised
           /\ FLt(sim, low) => score.val = One
           /\ FGt(sim, high) => score.val = Zero
           /\ (FLe(low, sim) /\ FLe(sim, high))
                 => score.val = FDiv(FSub(high, sim), FSub(high, low))
           /\ sim = low => score.val = One
           /\ sim = high => score.val = Zero
           /\ \A e2 \in SeqsOfLen(VecPool, 2) :
                 FLe(sim, cosine_similarity(e2[1], e2[2]))
                     => FLe(evaluate_price_extremes(thresholds, e2).val, score.val)

C10_Witness ==
    /\ pc = "returned"
    /\ test_id = "test_1"
    /\ thresholds = DefaultThresholds
    /\ Len(embeddings) = 2
    /\ cosine_similarity(embeddings[1], embeddings[2]) = thresholds["low_similarity"]
    /\ score = Ret(One)

Returned2(t, n) == pc = "returned" /\ test_id = t /\ Len(embeddings) = n

\* ThresholdConfig of the data model: the three names, each a float in
\* [0,1], with low_similarity < high_similarity
InDomain(th) == WellFormed(th) /\ \A k \in DOMAIN th : InUnit(th[k])

\* the rule of test 2 as the claim writes it, for sim(A,B) and sim(A,C)
SingleOptionRule(th, sab, sac) ==
    FAdd(FAdd(FMul(C04, PyMin(One, FDiv(sab, th["single_option_diff_min"]))),
              FMul(C04, IF FLt(sac, th["low_similarity"]) THEN One
                        ELSE FDiv(FSub(th["high_similarity"], sac),
                                  FSub(th["high_similarity"], th["low_similarity"])))),
         FMul(C02, IF FGt(sab, sac) THEN One ELSE Half))

\* C11: test 2 on exactly 3 embeddings A, B, C returns
\* 0.4*similar + 0.4*different + 0.2*ranking with
\* similar = min(1, sim(A,B)/single_option_diff_min),
\* different = 1 if sim(A,C) < low else (high - sim(A,C))/(high - low),
\* ranking = 1 if sim(A,B) > sim(A,C) (strictly) else 0.5
C11_SingleOptionDiffFormula ==
    (Returned2("test_2", 3) /\ InDomain(thresholds))
        => score = Ret(SingleOptionRule(thresholds,
                           cosine_similarity(embeddings[1], embeddings[2]),
                           cosine_similarity(embeddings[1], embeddings[3])))

\* a tie sim(A,B) = sim(A,C) = 0.30: 0.4*0.4 + 0.4*1 + 0.2*0.5
C11_Witness ==
    /\ Returned2("test_2", 3)
    /\ thresholds = DefaultThresholds
    /\ embeddings = <<VE1, V30, V30>>
    /\ score = Ret(Q(66, 100))

\* the band of each band-rule test
BandOf(t) ==
    CASE t = "test_3" -> <<C050, C075>>
      [] t = "test_5" -> <<C055, C080>>
      [] t = "test_10" -> <<C060, C085>>

\* the similarity the band rule is applied to: the single pairwise
\* similarity (tests 3, 10), the mean over all unordered pairs (test 5)
BandInput(t, e) ==
    IF t = "test_5" THEN Mean(triu_similarities(e))
    ELSE cosine_similarity(e[1], e[2])

\* the band rule as the claim writes it
BandRuleHolds(s, lower, upper, v) ==
    /\ (FLe(lower, s) /\ FLe(s, upper)) => v = One
    /\ FLt(s, lower) => v = FDiv(s, lower)
    /\ FGt(s, upper) => v = PyMax(Zero, FSub(One, FDiv(FSub(s, upper), FSub(One, upper))))
    /\ (s = lower \/ s = upper) => v = One
    /\ s = One => v = Zero

\* C12: tests 3, 10 (single similarity) and 5 (mean similarity) apply the
\* same band rule with closed bands [0.50,0.75], [0.60,0.85], [0.55,0.80]:
\* 1 inside the band edges included, s/lower below, and
\* max(0, 1 - (s - upper)/(1 - upper)) above; so 1 at both edges, 0 at s = 1
C12_BandRule ==
    (pc = "returned" /\ test_id \in {"test_3", "test_5", "test_10"}
        /\ CountAccepted(test_id, Len(embeddings)))
    => /\ ~score.raised
       /\ BandRuleHolds(BandInput(test_id, embeddings), BandOf(test_id)[1],
                        BandOf(test_id)[2], score.val)

\* test 5 below its band: the pair at 0.30 scores 0.30/0.55
C12_Witness ==
    /\ Returned2("test_5", 2)
    /\ embeddings = <<VE1, V30>>
    /\ score = Ret(Q(30, 55))

\* all arrays of two rows
Pairs == {e \in EmbeddingArrays : Len(e) = 2}

\* the rule of test 4 as the claim writes it
ColorRuleHolds(sim, high, v) ==
    /\ FGe(sim, high) => v = One
    /\ (FLt(sim, high) /\ FLt(sim, C070)) => v = Zero
    /\ (FLt(sim, high) /\ FGe(sim, C070))
          => (FSub(high, C070) # Zero /\ v = FDiv(FSub(sim, C070), FSub(high, C070)))
    /\ IsFinite(v)

\* C13: test 4 on exactly 2 embeddings scores 1 if sim >= high, otherwise
\* 0 if sim < 0.70, otherwise (sim - 0.70)/(high - 0.70); for every
\* high_similarity (at or below 0.70 included) the division is never
\* reached with a zero denominator and the score is non-decreasing in sim
C13_ColorSensitivity ==
    (pc = "returned" /\ test_id = "test_4" /\ Len(embeddings) = 2
        /\ Has(thresholds, "high_similarity"))
    => /\ ~score.raised
       /\ ColorRuleHolds(cosine_similarity(embeddings[1], embeddings[2]),
                         thresholds["high_similarity"], score.val)
       /\ \A e2 \in Pairs :
             FLe(cosine_similarity(embeddings[1], embeddings[2]),
                 cosine_similarity(e2[1], e2[2]))
                 => FLe(score.val, evaluate_color_sensitivity(thresholds, e2).val)

\* high_similarity = 0.65 and sim = 0.65: full score although sim < 0.70
C13_Witness ==
    /\ Returned2("test_4", 2)
    /\ thresholds = ThHigh065
    /\ embeddings = <<VE1, V65>>
    /\ score = Ret(One)

\* C14: test 6 on at least 2 embeddings, with avg the mean similarity over
\* all unordered pairs, scores 1 if avg < low_similarity, 0 if avg > 0.65,
\* and (0.65 - avg)/(0.65 - low) otherwise
C14_VehicleLineSeparation ==
    (pc = "returned" /\ test_id = "test_6" /\ Len(embeddings) >= 2
        /\ Has(thresholds, "low_similarity"))
    => score = Ret(IF FLt(Mean(triu_similarities(embeddings)), thresholds["low_similarity"])
                   THEN One
                   ELSE IF FGt(Mean(triu_similarities(embeddings)), C065) THEN Zero
                   ELSE FDiv(FSub(C065, Mean(triu_similarities(embeddings))),
                             FSub(C065, thresholds["low_similarity"])))

\* three rows with similarities 0.85, 0.30 and 0.755: avg 0.635, score 3/70
C14_Witness ==
    /\ Returned2("test_6", 3)
    /\ thresholds = DefaultThresholds
    /\ embeddings = <<VE1, V85, V30>>
    /\ score = Ret(Q(3, 70))

\* the rule of test 7 as the claim writes it
ClusteringRule(avg_same, avg_diff) ==
    FAdd(FAdd(FMul(C04, IF FGt(avg_same, avg_diff) THEN One ELSE Half),
              FMul(C03, PyMin(One, FDiv(avg_same, C070)))),
         FMul(C03, IF FLt(avg_diff, C050) THEN One
                   ELSE PyMax(Zero, FDiv(FSub(C080, avg_diff), C03))))

\* mean similarity among the rows at the positions ps (pairs of indices)
MeanOfPairs(e, ps) == Mean([i \in 1..Len(ps) |-> cosine_similarity(e[ps[i][1]], e[ps[i][2]])])

\* C15: test 7 on exactly 4 embeddings returns
\* 0.4*clustering + 0.3*same + 0.3*diff, avg_same the mean of the 3
\* similarities among the first three rows, avg_diff the mean of their 3
\* similarities to the fourth, clustering = 1 if avg_same > avg_diff
\* (strictly) else 0.5, same = min(1, avg_same/0.70),
\* diff = 1 if avg_diff < 0.50 else max(0, (0.80 - avg_diff)/0.30)
C15_DerivativeClusteringFormula ==
    Returned2("test_7", 4)
        => score = Ret(ClusteringRule(
                           MeanOfPairs(embeddings, <<<<1, 2>>, <<1, 3>>, <<2, 3>>>>),
                           MeanOfPairs(embeddings, <<<<1, 4>>, <<2, 4>>, <<3, 4>>>>)))

\* four equal rows: avg_same = avg_diff = 1, so 0.4*0.5 + 0.3*1 + 0.3*0
C15_Witness ==
    /\ Returned2("test_7", 4)
    /\ embeddings = <<VE1, VE1, VE1, VE1>>
    /\ score = Ret(Half)

\* the rule of test 8 as the claim writes it
FeatureRule(slm, smh, slh, mean) ==
    FAdd(FMul(Half, IF FGt(slm, slh) /\ FGt(smh, slh) THEN One ELSE Half),
         FMul(Half, IF FLe(C030, mean) /\ FLe(mean, C065) THEN One
                    ELSE PyMax(Zero, FSub(One, FDiv(FAbs(FSub(mean, Q(475, 1000))), Half)))))

\* C16: test 8 on exactly 3 embeddings (low, mid, high) returns
\* 0.5*monotonic + 0.5*range, monotonic = 1 if sim(low,mid) > sim(low,high)
\* and sim(mid,high) > sim(low,high) (both strict) else 0.5, range = 1 if
\* the mean of the three similarities is in [0.30, 0.65] else
\* max(0, 1 - |mean - 0.475|/0.5)
C16_FeatureCorrelationFormula ==
    Returned2("test_8", 3)
        => score = Ret(FeatureRule(cosine_similarity(embeddings[1], embeddings[2]),
                                   cosine_similarity(embeddings[2], embeddings[3]),
                                   cosine_similarity(embeddings[1], embeddings[3]),
                                   MeanOfPairs(embeddings, <<<<1, 2>>, <<2, 3>>, <<1, 3>>>>)))

\* only one of the two comparisons holds (0.85 > 0.755, 0.30 < 0.755) and
\* the mean 0.635 is in the range: 0.5*0.5 + 0.5*1
C16_Witness ==
    /\ Returned2("test_8", 3)
    /\ embeddings = <<V85, VE1, V30>>
    /\ score = Ret(Q(75, 100))

\* the rule of test 9 as the claim writes it, m = min(sim(A,B), sim(B,C))
TransitivityRule(m, sac) ==
    IF FGe(sac, FMul(C08, m)) THEN One
    ELSE IF FGe(sac, FMul(C06, m)) THEN C07
    ELSE PyMax(Zero, FDiv(sac, FMul(C06, m)))

\* C17: test 9 on at least 3 embeddings is computed from the first three
\* rows A, B, C only; with m = min(sim(A,B), sim(B,C)) it returns 1.0 if
\* sim(A,C) >= 0.8*m, else 0.7 if sim(A,C) >= 0.6*m, else
\* max(0, sim(A,C)/(0.6*m)); sim(A,B) = sim(B,C) = 0.70 with
\* sim(A,C) = 0.60 gives 1.0
C17_TransitivityFormula ==
    (pc = "returned" /\ test_id = "test_9" /\ Len(embeddings) >= 3)
    => /\ score = Ret(TransitivityRule(
                          PyMin(cosine_similarity(embeddings[1], embeddings[2]),
                                cosine_similarity(embeddings[2], embeddings[3])),
                          cosine_similarity(embeddings[1], embeddings[3])))
       /\ score = evaluate_transitivity(thresholds, SubSeq(embeddings, 1, 3))
       /\ SubSeq(embeddings, 1, 3) = <<V70a, VE1, V70c>> => score = Ret(One)

\* the example of the claim, followed by a fourth row
C17_Witness ==
    /\ Returned2("test_9", 4)
    /\ SubSeq(embeddings, 1, 3) = <<V70a, VE1, V70c>>
    /\ cosine_similarity(embeddings[1], embeddings[2]) = C070
    /\ cosine_similarity(embeddings[2], embeddings[3]) = C070
    /\ cosine_similarity(embeddings[1], embeddings[3]) = C060
    /\ score = Ret(One)

\* the tests whose rule holds no configurable threshold
ThresholdFree == {"test_3", "test_5", "test_7", "test_8", "test_9", "test_10"}

\* C18: engines that differ only in their thresholds give the same score
\* for tests 3, 5, 7, 8, 9 and 10 (each engine agrees with the engine of
\* the default thresholds, hence with every other); the constants 0.70 of
\* test 4 and 0.65 of test 6 stay the same under every configuration
C18_ThresholdIndependence ==
    pc = "returned" =>
        /\ test_id \in ThresholdFree
              => test_evaluators(test_id, DefaultThresholds, embeddings) = score
        /\ (test_id = "test_4" /\ Len(embeddings) = 2
              /\ Has(thresholds, "high_similarity")
              /\ FLt(C070, thresholds["high_similarity"])
              /\ cosine_similarity(embeddings[1], embeddings[2]) = C070)
              => score = Ret(Zero)
        /\ (test_id = "test_6" /\ Len(embeddings) = 2
              /\ FLt(thresholds["low_similarity"], C065)
              /\ cosine_similarity(embeddings[1], embeddings[2]) = C065)
              => score = Ret(Zero)

\* test 10 at similarity 0.85 on the engine whose high_similarity is 0.65
C18_Witness ==
    /\ Returned2("test_10", 2)
    /\ thresholds = ThHigh065
    /\ embeddings = <<VE1, V85>>
    /\ score = Ret(One)
    /\ evaluate_cross_year(DefaultThresholds, embeddings) = score

\* a row of zero magnitude
IsZeroRow(u) == Dot(u, u) = 0

\* C21: when either vector of a pair has zero magnitude the similarity is
\* 0.0 and nothing is raised; the evaluator scores the pair as similarity
\* 0, so test 1 on a zero vector returns 1.0
C21_ZeroVectorSimilarity ==
    (pc = "returned" /\ WellFormed(thresholds)) =>
        /\ \A i \in 1..Len(embeddings) :
              IsZeroRow(embeddings[i]) =>
                  \A j \in 1..Len(embeddings) :
                      /\ cosine_similarity(embeddings[i], embeddings[j]) = Zero
                      /\ cosine_similarity(embeddings[j], embeddings[i]) = Zero
        /\ (\E i \in 1..Len(embeddings) : IsZeroRow(embeddings[i])) => ~score.raised
        /\ (test_id = "test_1" /\ Len(embeddings) = 2
              /\ (IsZeroRow(embeddings[1]) \/ IsZeroRow(embeddings[2]))
              /\ FLt(Zero, thresholds["low_similarity"]))
              => score = Ret(One)

C21_Witness ==
    /\ Returned2("test_1", 2)
    /\ thresholds = DefaultThresholds
    /\ embeddings = <<VE1, VZ>>
    /\ cosine_similarity(embeddings[1], embeddings[2]) = Zero
    /\ score = Ret(One)

\* C29: in test 9, for a positive m = min(sim(A,B), sim(B,C)), the score
\* is non-decreasing in sim(A,C): below 60% of m (the scaled penalty) it is
\* never higher than the 0.7 given between 60% and 80% of m
C29_TransitivityMonotone ==
    (pc = "returned" /\ test_id = "test_9" /\ Len(embeddings) >= 3
        /\ FLt(Zero, PyMin(cosine_similarity(embeddings[1], embeddings[2]),
                           cosine_similarity(embeddings[2], embeddings[3])))
        /\ FLt(cosine_similarity(embeddings[1], embeddings[3]),
               FMul(PyMin(cosine_similarity(embeddings[1], embeddings[2]),
                          cosine_similarity(embeddings[2], embeddings[3])), C06)))
    => FLe(score.val, C07)

(***************************************************************************)
(* Properties of evaluate_submission (checked under SpecSub).              *)
(***************************************************************************)
Done == pc = "done"

Valid == Done /\ ~ret.raised /\ ret.value.valid

ReportedScores == ret.value.details.test_scores

WellShaped ==
    /\ results.kind = "dict"
    /\ results.keys = FieldNames
    /\ results.processed_data.kind = "dict"

\* C2: a valid evaluation under the default weights reports a final score
\* in [0,1] and per-test scores in [0,1]
C2_ValidScoresInUnitInterval ==
    (Valid /\ test_weights = DefaultWeights)
        => /\ InUnit(ret.value.score)
           /\ \A k \in DOMAIN ReportedScores : InUnit(ReportedScores[k])

\* C3: evaluate_submission never raises; it returns a mapping with valid and
\* score; an invalid result has score 0.0 and an error, a valid one has
\* details.test_scores
C3_NeverRaises ==
    Done =>
        /\ ~ret.raised
        /\ {"valid", "score"} \subseteq DOMAIN ret.value
        /\ ~ret.value.valid => (ret.value.score = Zero /\ "error" \in DOMAIN ret.value)
        /\ ret.value.valid => /\ "details" \in DOMAIN ret.value
                              /\ "test_scores" \in DOMAIN ret.value.details

C3_Witness ==
    /\ Done
    /\ results.kind = "scalar"
    /\ ret.value = [valid |-> FALSE, error |-> "Evaluation error: TypeError", score |-> Zero]

Rejected(msg) ==
    /\ ret.value = [valid |-> FALSE, error |-> msg, score |-> Zero]
    /\ ret.invoked = {}

\* C4: a submission (a mapping) without processed_data, or else without
\* metadata, is rejected with "Missing required field: <name>"; one with
\* both whose processed_data is not a mapping is rejected with
\* "processed_data must be a dictionary"; no evaluator is invoked
C4_RequiredFields ==
    (Done /\ results.kind = "dict") =>
        /\ "processed_data" \notin results.keys
              => Rejected("Missing required field: processed_data")
        /\ ("processed_data" \in results.keys /\ "metadata" \notin results.keys)
              => Rejected("Missing required field: metadata")
        /\ (results.keys = FieldNames /\ results.processed_data.kind # "dict")
              => Rejected("processed_data must be a dictionary")

C4_Witness ==
    /\ Done
    /\ results.kind = "dict"
    /\ results.keys = {"processed_data"}
    /\ DOMAIN results.processed_data.tests = {"test_1"}
    /\ Rejected("Missing required field: metadata")

\* C5: a submission whose metadata is present but not a mapping is
\* rejected: valid=false, score 0.0, no test evaluated
C5_MetadataMustBeMapping ==
    (Done /\ results.kind = "dict" /\ "metadata" \in results.keys
        /\ results.metadata.kind # "dict")
    => /\ ~ret.value.valid
       /\ ret.value.score = Zero
       /\ ret.invoked = {}

\* a test entry whose processing fails: not a mapping, ragged embeddings,
\* or an exception inside the evaluator (such as a missing threshold)
Faulty(t) ==
    LET entry == results.processed_data.tests[t] IN
    \/ entry.kind # "dict"
    \/ /\ entry.has_embeddings
       /\ \/ entry.embeddings.kind = "ragged"
          \/ /\ entry.embeddings.kind = "rows"
             /\ test_evaluators(t, thresholds, entry.embeddings.rows).raised

Without(r, t) ==
    [r EXCEPT !.processed_data =
        DictValue([u \in DOMAIN r.processed_data.tests \ {t} |-> r.processed_data.tests[u]])]

\* every test but t has the same reported score in both results
SameOtherScores(t, scores, other) ==
    /\ other.valid
    /\ \A u \in TestIds \ {t} :
          /\ u \in DOMAIN scores <=> u \in DOMAIN other.details.test_scores
          /\ u \in DOMAIN scores => scores[u] = other.details.test_scores[u]

\* C6: a failure in one test's entry records 0.0 for that test only: the
\* evaluation is valid and every other test scores as if the faulty test
\* were absent
C6_LocalFaultIsolation ==
    (Done /\ WellShaped) =>
        \A t \in DOMAIN results.processed_data.tests \cap TestIds :
            Faulty(t) =>
                /\ ret.value.valid
                /\ t \in DOMAIN ReportedScores
                /\ ReportedScores[t] = Zero
                /\ SameOtherScores(t, ReportedScores,
                       evaluate_submission(thresholds, test_weights,
                                           Without(results, t)).value)

\* C7: a non-finite evaluator result is recorded as 0.0 and the reported
\* final score stays finite
C7_NonFiniteRecordedAsZero ==
    Valid =>
        /\ IsFinite(ret.value.score)
        /\ \A t \in DOMAIN ReportedScores :
              (results.processed_data.tests[t].embeddings.kind = "rows"
                  /\ ~IsFinite(test_evaluators(t, thresholds,
                         results.processed_data.tests[t].embeddings.rows).val))
                  => ReportedScores[t] = Zero

\* the unrounded score of a test, 0 for a test without a score
RawScore(t) == IF t \in DOMAIN ret.raw THEN ret.raw[t] ELSE Zero

\* a test that is absent from processed_data or has empty embeddings
AbsentOrEmpty(t) ==
    \/ t \notin DOMAIN results.processed_data.tests
    \/ LET entry == results.processed_data.tests[t] IN
       entry.kind = "dict" /\ (~entry.has_embeddings \/ entry.embeddings.kind = "empty")

OnlyTestOne ==
    /\ WellShaped
    /\ DOMAIN results.processed_data.tests = {"test_1"}
    /\ results.processed_data.tests["test_1"] = DictEntry(EmbRows(<<VE1, VE2>>))
    /\ test_weights = DefaultWeights
    /\ thresholds = DefaultThresholds

\* C8: the final score of a valid submission is the sum over all ten test
\* ids of score x weight, an absent or empty test counting as 0, never
\* renormalised over the tests present: test_1 alone with score 1.0 gives
\* 0.15 under the default weights
C8_WeightedSumOverAllTests ==
    Valid =>
        /\ ret.value.score =
              Round3(FSum([i \in 1..Len(TestOrder) |->
                  FMul(RawScore(TestOrder[i]), test_weights[TestName[TestOrder[i]]])]))
        /\ \A t \in TestIds : AbsentOrEmpty(t) => t \notin DOMAIN ret.raw
        /\ OnlyTestOne => (ret.raw["test_1"] = One /\ ret.value.score = Q(15, 100))

C8_Witness ==
    /\ Valid
    /\ OnlyTestOne
    /\ ReportedScores = ("test_1" :> One)
    /\ ret.value.score = Q(15, 100)

\* the keys of seq held in the opposite order
Reversed(seq) == [i \in 1..Len(seq) |-> seq[Len(seq) + 1 - i]]

\* the submission r with the keys of processed_data in the order ord
Reordered(r, ord) == [r EXCEPT !.processed_data.order = ord]

\* C19: submissions whose processed_data hold the same test entries in a
\* different key order (here: the opposite order) get the same result:
\* same validity, same final score, same per-test scores
C19_KeyOrderIndependence ==
    (Done /\ WellShaped) =>
        evaluate_submission(thresholds, test_weights,
            Reordered(results, Reversed(results.processed_data.order))).value
                = ret.value

\* test_1 and test_3 both scoring 1.0, against the same entries held as
\* test_3, test_1
C19_Witness ==
    /\ Valid
    /\ WellShaped
    /\ test_weights = DefaultWeights
    /\ results.processed_data.order = <<"test_1", "test_3">>
    /\ ReportedScores = ("test_1" :> One @@ "test_3" :> One)
    /\ ret.value.score = Q(25, 100)
    /\ evaluate_submission(thresholds, test_weights,
                           Reordered(results, <<"test_3", "test_1">>)).value = ret.value

(***************************************************************************)
(* Properties of concurrent evaluations (checked under SpecConc).          *)
(***************************************************************************)
\* every finished call holds the result of the same call run alone
SameAsAlone ==
    \A c \in Callers :
        calls[c].pc = "done"
            => calls[c].out.value
                   = evaluate_submission(thresholds, test_weights, calls[c].results).value

\* C20: evaluations on one engine do not interfere: no step changes
\* test_weights or thresholds, and under every interleaving each call
\* returns what it returns when run alone, a function of `results` and the
\* configuration only (not of participant_name, submission_tag,
\* test_data_id or of earlier evaluations)
C20_NoInterference ==
    /\ []SameAsAlone
    /\ [][thresholds' = thresholds /\ test_weights' = test_weights]_vars

\* two calls that overlapped, each the second of its thread, with
\* different arguments and different valid results
C20_Witness ==
    /\ \A c \in Callers :
          calls[c].pc = "done" /\ calls[c].n = 2 /\ calls[c].overlapped
              /\ calls[c].out.value.valid
    /\ calls["request_1"].meta # calls["request_2"].meta
    /\ calls["request_1"].out.value.score # calls["request_2"].out.value.score
    /\ SameAsAlone

(***************************************************************************)
(* Rounding, reported entries and configured weights.                      *)
(***************************************************************************)
\* C23: the reported final score is the weighted sum of the unrounded
\* per-test scores, rounded once to 3 decimals; each reported per-test
\* score is its unrounded score rounded to 3 decimals; the final score is
\* not recomputed from the rounded per-test scores
C23_RoundedOnce ==
    Valid =>
        /\ ret.value.score = Round3(final_score(ret.raw, test_weights))
        /\ DOMAIN ReportedScores = DOMAIN ret.raw
        /\ \A t \in DOMAIN ReportedScores : ReportedScores[t] = Round3(ret.raw[t])

\* test 5 at similarity 0.30 scores 6/11: the sum 0.0545... is reported as
\* 0.055, where the rounded 0.545 would give 0.0545, hence 0.054
C23_Witness ==
    /\ Valid
    /\ test_weights = DefaultWeights
    /\ ret.raw = ("test_5" :> Q(6, 11))
    /\ ReportedScores = ("test_5" :> Q(545, 1000))
    /\ ret.value.score = Q(55, 1000)
    /\ Round3(final_score(ReportedScores, test_weights)) = Q(54, 1000)

\* the fixed test ids present in processed_data with a non-empty embeddings list
Evaluated(r) ==
    {t \in TestIds \cap DOMAIN r.processed_data.tests :
        /\ r.processed_data.tests[t].kind = "dict"
        /\ r.processed_data.tests[t].has_embeddings
        /\ r.processed_data.tests[t].embeddings.kind # "empty"}

\* the submission r without the entries that are not evaluated
Pruned(r) ==
    [r EXCEPT !.processed_data =
        DictValue([t \in Evaluated(r) |-> r.processed_data.tests[t]])]

\* C24: details.test_scores has an entry for exactly those of the ten test
\* ids present in processed_data with a non-empty embeddings list; absent
\* tests, missing or empty embeddings and unknown ids get no entry and do
\* not change the final score
C24_ReportedEntries ==
    Valid =>
        /\ DOMAIN ReportedScores = Evaluated(results)
        /\ Evaluated(results) # DOMAIN results.processed_data.tests =>
              ret.value.score
                  = evaluate_submission(thresholds, test_weights, Pruned(results)).value.score

\* test_1 evaluated, an unknown test_11 with embeddings ignored
C24_Witness ==
    /\ Valid
    /\ test_weights = DefaultWeights
    /\ DOMAIN results.processed_data.tests = {"test_1", "test_11"}
    /\ results.processed_data.tests["test_11"] = DictEntry(EmbRows(<<VE1, VE2>>))
    /\ ReportedScores = ("test_1" :> One)
    /\ ret.value.score = Q(15, 100)

\* C25: an engine constructed with a WeightConfig that maps test_1..test_10
\* to weights uses exactly those weights: final = sum of
\* score(test_i) x WeightConfig[test_i]
C25_WeightsByTestId ==
    (Valid /\ DOMAIN test_weights = TestIds) =>
        ret.value.score =
            Round3(FSum([i \in 1..Len(TestOrder) |->
                FMul(RawScore(TestOrder[i]), test_weights[TestOrder[i]])]))

(***************************************************************************)
(* Properties of the CSV leaderboard (SpecCsv, SpecCsvConc).               *)
(***************************************************************************)
\* the calls of history made for the participant, in order
CallsOf(p) == SelectSeq(history, LAMBDA h : h.participant_name = p)

\* the highest score among the calls hs
BestOf(hs) == CHOOSE s \in {hs[i].score : i \in 1..Len(hs)} :
                  \A i \in 1..Len(hs) : FLe(hs[i].score, s)

\* the first call of hs that reached the highest score
FirstBest(hs) == hs[CHOOSE i \in 1..Len(hs) :
                        /\ hs[i].score = BestOf(hs)
                        /\ \A j \in 1..(i - 1) : hs[j].score # BestOf(hs)]

RowsOf(p) == {i \in 1..Len(leaderboard) : leaderboard[i].participant_name = p}

\* the participant's row holds the first call that reached the best score
HoldsBest(p) ==
    \A i \in RowsOf(p) :
        /\ str_to_float(leaderboard[i].score) = BestOf(CallsOf(p))
        /\ leaderboard[i].submission_tag = FirstBest(CallsOf(p)).submission_tag
        /\ leaderboard[i].timestamp = FirstBest(CallsOf(p)).timestamp

Descending ==
    \A i \in 1..(Len(leaderboard) - 1) :
        FGe(str_to_float(leaderboard[i].score), str_to_float(leaderboard[i + 1].score))

\* C26: after any sequence of sequential update_leaderboard calls each
\* participant has exactly one row, its score is the maximum of the scores
\* submitted for the participant, and a submission that is not strictly
\* greater than the stored score leaves tag, timestamp and score of the row
\* as they were (the row is that of the first call that reached the maximum)
C26_CsvKeepsBest ==
    \A p \in Participants :
        IF CallsOf(p) = <<>> THEN RowsOf(p) = {}
        ELSE Cardinality(RowsOf(p)) = 1 /\ HoldsBest(p)

\* alice submits 0.5 (v1), then 0.25 and 0.5 again (v2): the row of the
\* first call stays
C26_Witness ==
    /\ Len(history) = 3
    /\ \A i \in 1..3 : history[i].participant_name = "alice"
    /\ history[1].score = Half /\ history[1].submission_tag = "v1"
    /\ history[2].score = Q(1, 4) /\ history[2].submission_tag = "v2"
    /\ history[3].score = Half /\ history[3].submission_tag = "v2"
    /\ leaderboard = <<NewRow("alice", "v1", 1, Half)>>

\* C30: when two update_leaderboard calls interleave, no completed update
\* is lost: once both have returned, every participant that submitted is
\* present with the best score and the rows are in non-increasing order
C30_NoLostUpdate ==
    (\A c \in Callers : calls[c].pc = "idle") =>
        /\ \A p \in Participants :
              CallsOf(p) # <<>> =>
                  \E i \in RowsOf(p) :
                      str_to_float(leaderboard[i].score) = BestOf(CallsOf(p))
        /\ Descending

(***************************************************************************)
(* Properties of the submission endpoint (SpecApp).                        *)
(***************************************************************************)
\* the positions of the calls of op in the log of frame f
CallsTo(f, op) == {i \in 1..Len(f.log) : f.log[i].op = op}

\* every update_leaderboard of f follows a valid evaluation and carries its score
UpdateAfterValid(f) ==
    \A i \in CallsTo(f, "update_leaderboard") :
        /\ i > 1
        /\ f.log[1] = Called("evaluate_submission", f.evaluation_result.score, TRUE)
        /\ f.evaluation_result.valid
        /\ f.log[i].score = f.evaluation_result.score

\* f evaluated a submission that was found invalid
EvaluatedInvalid(f) ==
    /\ CallsTo(f, "evaluate_submission") # {}
    /\ ~f.evaluation_result.valid

\* C22: update_leaderboard is called only after evaluate_submission has
\* returned a valid result, and with that result's score; after an invalid
\* evaluation neither update_leaderboard nor record_submission is called
\* and the response is an error with score 0.0
C22_ScoreBeforeLeaderboard ==
    \A c \in Callers :
        /\ UpdateAfterValid(calls[c])
        /\ EvaluatedInvalid(calls[c]) =>
              /\ calls[c].pc = "done"
              /\ CallsTo(calls[c], "update_leaderboard") = {}
              /\ CallsTo(calls[c], "record_submission") = {}
              /\ calls[c].response = Response(400, "error", Zero, 0)

\* one request updated the leaderboard with its score 0.15, the other was
\* rejected by the evaluation
C22_Witness ==
    /\ calls["request_1"].pc = "done"
    /\ calls["request_1"].response.status = "success"
    /\ calls["request_1"].evaluation_result.score = Q(15, 100)
    /\ calls["request_1"].log[2] = Called("update_leaderboard", Q(15, 100), TRUE)
    /\ leaderboard[<<calls["request_1"].data.participant_name,
                     calls["request_1"].data.submission_tag>>].score = Q(15, 100)
    /\ EvaluatedInvalid(calls["request_2"])
    /\ calls["request_2"].response = Response(400, "error", Zero, 0)

\* the stored score of every key is the highest score submitted for it
StoresBest ==
    \A k \in DOMAIN leaderboard :
        \A i \in 1..Len(history) :
            (history[i].participant_name = k[1] /\ history[i].submission_tag = k[2])
                => FLe(history[i].score, leaderboard[k].score)

\* C27: after any sequence of update_leaderboard calls the score stored for
\* a participant and submission tag is the maximum score submitted for it,
\* never a later lower one
C27_DbKeepsBest == StoresBest

\* the record_submission of f failed in the database
RecordFailed(f) ==
    \E i \in CallsTo(f, "record_submission") : ~f.log[i].ok

\* C28: when recording the submission fails, record_submission returns
\* False without raising, submit_results still returns the success response
\* with the score and the rank, and the leaderboard update of the request
\* is kept
C28_RecordFailureTolerated ==
    /\ [](\A c \in Callers :
            RecordFailed(calls[c]) =>
                /\ ~calls[c].success
                /\ calls[c].pc \in {"respond", "done"}
                /\ calls[c].pc = "done" =>
                      calls[c].response = Response(200, "success",
                                                   calls[c].evaluation_result.score,
                                                   calls[c].current_rank)
                /\ <<calls[c].data.participant_name, calls[c].data.submission_tag>>
                      \in DOMAIN leaderboard)
    /\ [][\A c \in Callers :
            (calls[c].pc = "record" /\ RecordFailed(calls'[c]))
                => (leaderboard' = leaderboard /\ calls'[c].pc = "respond")]_vars

\* a request whose recording failed answered success with score 0.15, rank 1
C28_Witness ==
    /\ calls["request_1"].pc = "done"
    /\ RecordFailed(calls["request_1"])
    /\ calls["request_1"].response = Response(200, "success", Q(15, 100), 1)
    /\ submissions = <<>>
    /\ DOMAIN leaderboard = {<<"alice", "v1">>}
    /\ leaderboard[<<"alice", "v1">>].score = Q(15, 100)

====
